---------------------------- MODULE Spec2Model ----------------------------
(***************************************************************************)
(* A model of the ALA data service (src/server.js): the pool-scoped        *)
(* aggregation behind GET /api/pool-data, its seven retrieval streams      *)
(* against the indexed-query endpoint, and the analytics query executor.   *)
(*                                                                         *)
(* JavaScript runs one handler continuation at a time: every action below  *)
(* is one continuation, from the event that resumes it (a request arrives, *)
(* a response arrives) to its next await or its return.                    *)
(***************************************************************************)
EXTENDS Integers, Sequences, FiniteSets, TLC

(***************************************************************************)
(* Bounds of the model.                                                    *)
(***************************************************************************)
\* The page size `first: 1000` of every query (src/server.js:337), scaled.
PageSize == 2
\* The most records one upstream collection holds in a single-stream run.
MaxRecords == 6
\* The `first: 1000` of the positions and ticks queries (src/server.js:509,
\* 605), scaled.
BulkFirst == 5
\* Timestamps of a single-stream run range over 0..MaxTime.
MaxTime == 3
\* The largest lower bound a direct call of a fetcher is given.
MaxMinTimestamp == 1
\* A stream issues fewer requests than this; it bounds the exploration of a
\* loop whose cursor does not advance.
MaxRequests == 8
\* The longest `days` query parameter.
MaxDaysLen == 4
\* The clock of the aggregation runs (seconds), later than maxDays days.
NowSeconds == 2600000
\* config.ampMaxRows (AMP_MAX_ROWS of the environment, default 10000), scaled.
ampMaxRows == 3
\* The analytics engine answers with at most MaxBatches batches of at most
\* MaxBatchRows rows.
MaxBatches == 3
MaxBatchRows == 3

(***************************************************************************)
(* Program constants.                                                      *)
(***************************************************************************)
maxDays == 30
\* 10 * 60 * 1000 milliseconds, in seconds: the window of GET /api/recent-swaps.
RecentSeconds == 600
\* 5 * 1000 milliseconds, in seconds: the window of GET /api/latest-swaps.
LatestSeconds == 5
\* 24 * 60 * 60 * 1000 milliseconds, in seconds.
DaySeconds == 86400

\* A JavaScript number: NaN, or an integer.
NaN == [nan |-> TRUE, val |-> 0]
Number(n) == [nan |-> FALSE, val |-> n]
isNaN(x) == x.nan

\* A request parameter: absent, or a text.
Absent == [present |-> FALSE, text |-> <<>>]
Param(text) == [present |-> TRUE, text |-> text]

(***************************************************************************)
(* Text: a string is a sequence of one-character strings.                  *)
(***************************************************************************)
DigitChars == <<"0", "1", "2", "3", "4", "5", "6", "7", "8", "9">>
Digits == {DigitChars[i] : i \in 1..10}
Whitespace == {" "}

DigitVal(c) == (CHOOSE i \in 1..10 : DigitChars[i] = c) - 1

\* The number of leading characters of s that are in the set cs.
RECURSIVE PrefixLen(_, _)
PrefixLen(s, cs) ==
    IF s = <<>> \/ Head(s) \notin cs THEN 0 ELSE 1 + PrefixLen(Tail(s), cs)

Drop(s, n) == SubSeq(s, n + 1, Len(s))

\* The value of a sequence of decimal digits.
RECURSIVE DigitsValue(_)
DigitsValue(ds) ==
    IF ds = <<>> THEN 0
    ELSE 10 * DigitsValue(SubSeq(ds, 1, Len(ds) - 1)) + DigitVal(ds[Len(ds)])

\* parseInt(string) in radix 10: leading whitespace is skipped, a sign is
\* read, then the longest run of digits; whatever follows is ignored, and
\* no digit at all gives NaN.
parseInt(s) ==
    LET t == Drop(s, PrefixLen(s, Whitespace))
        signed == t # <<>> /\ Head(t) \in {"-", "+"}
        u == IF signed THEN Tail(t) ELSE t
        n == PrefixLen(u, Digits)
    IN  IF n = 0 THEN NaN
        ELSE IF signed /\ Head(t) = "-" THEN Number(0 - DigitsValue(SubSeq(u, 1, n)))
        ELSE Number(DigitsValue(SubSeq(u, 1, n)))

\* The decimal text of a natural number: how the endpoint serialises a BigInt.
RECURSIVE ToText(_)
ToText(n) ==
    IF n < 10 THEN <<DigitChars[n + 1]>>
    ELSE Append(ToText(n \div 10), DigitChars[(n % 10) + 1])

\* The decimal text of an integer.
IntText(n) == IF n < 0 THEN <<"-">> \o ToText(0 - n) ELSE ToText(n)

\* A JavaScript number that is no integer of the model's range: NaN, or
\* m * 10^e with m a natural number that does not end in 0.
FloatNaN == [nan |-> TRUE, m |-> 0, e |-> 0]

RECURSIVE Float(_, _)
Float(m, e) ==
    IF m = 0 THEN [nan |-> FALSE, m |-> 0, e |-> 0]
    ELSE IF m % 10 = 0 THEN Float(m \div 10, e + 1)
    ELSE [nan |-> FALSE, m |-> m, e |-> e]

\* a * b
Times(a, b) == IF a.nan \/ b.nan THEN FloatNaN ELSE Float(a.m * b.m, a.e + b.e)

\* a / 1e18, and so on.
DividedByPowerOfTen(a, k) == IF a.nan THEN FloatNaN ELSE Float(a.m, a.e - k)

\* a - b of two integers, or NaN.
Minus(a, b) == IF isNaN(a) \/ isNaN(b) THEN NaN ELSE Number(a.val - b.val)

\* parseFloat(string) of a text without point or exponent: the longest run
\* of leading digits, and NaN when there is none.
parseFloat(s) ==
    LET n == PrefixLen(s, Digits)
    IN  IF n = 0 THEN FloatNaN ELSE Float(DigitsValue(SubSeq(s, 1, n)), 0)

(***************************************************************************)
(* The streams of one aggregation, and the upstream collections they read. *)
(***************************************************************************)
Paginated == {"swaps", "mints", "burns", "poolStates", "collects"}
Bulk == {"positions", "ticks"}
Streams == Paginated \cup Bulk
\* What a request awaits on the network: its streams' queries, the pool
\* lookup, the completion.
Calls == Streams \cup {"lookup", "completion"}
Collections == {"swaps", "mints", "burns", "collects", "positions", "ticks"}

\* fetchPoolStateByBlock queries the swaps entity, as fetchSwapsWithPagination.
CollectionOf(s) == IF s = "poolStates" THEN "swaps" ELSE s

VARIABLES
    upstream,      \* collection -> the timestamps of its records, ascending
    upToken,       \* what the index holds for the requested token
    upDetail,      \* the tick range and the gas of the pool's events in the index
    tokenAddress,  \* the request's tokenAddress parameter
    days,          \* the request's days parameter
    reqPc,         \* where the request handler is
    daysNum,       \* fetchAllPoolData's daysNum
    minTimestamp,  \* the lower bound given to the time-windowed fetchers
    poolInfo,      \* getPoolFromToken's result
    resolveRequests, \* the token ids of the pool lookups issued, in order
    joined,        \* the state of fetchAllPoolData's Promise.all
    responses,     \* the responses sent, or set about, for the request, in order
    archive,       \* where the archive of the bundle is
    pc,            \* stream -> where its fetcher is
    lastTimestamp, \* stream -> its cursor variable
    acc,           \* stream -> the records accumulated (allSwaps, allMints, ...)
    requests,      \* stream -> the cursors of the requests issued, in order
    pages,         \* stream -> the pages received, in order
    ampBatches,    \* the row counts of the batches the analytics engine yields
    ampConsumed,   \* how many batches executeAMPQuery has taken
    ampResults,    \* executeAMPQuery's results
    ampPc,         \* where executeAMPQuery is
    late,          \* the streams that asked for a page after the Promise.all settled
    received,      \* call -> what came back for its requests, in order
    endpoint,      \* the route the request came in by
    ampClient,     \* whether the analytics client was created at startup
    openaiClient,  \* whether the AI client was created at startup
    userQuery,     \* the request's query parameter
    llmRequests,   \* the pool addresses of the completions asked for, in order
    ampQueries,    \* the queries handed to the analytics engine, in order
    current,       \* the request whose locals the variables above hold
    parked         \* request -> the locals of a request not running now

upVars == <<upstream, upToken, upDetail>>
reqVars == <<tokenAddress, days, reqPc, daysNum, minTimestamp, poolInfo,
            resolveRequests, joined, responses, archive>>
fetchVars == <<pc, lastTimestamp, acc, requests, pages, late>>
streamVars == <<fetchVars, received>>
ampVars == <<ampBatches, ampConsumed, ampResults, ampPc>>
procVars == <<endpoint, ampClient, openaiClient, userQuery, llmRequests, ampQueries>>
loopVars == <<current, parked>>
vars == <<upVars, reqVars, streamVars, ampVars, procVars, loopVars>>

(***************************************************************************)
(* The indexed-query endpoint.  A record of a collection is known by its   *)
(* position; on the wire its timestamps are decimal texts.  A collect      *)
(* event and its transaction carry the timestamp of the same block.  The   *)
(* ticks and the gas are those of upDetail, as decimal texts; a gas field  *)
(* the index does not hold is null.                                        *)
(***************************************************************************)
\* A field of the wire: null, or the text of a natural number.
Null == Absent
Field(n) == Param(ToText(n))

\* Events of the range [-1, 1] whose transactions tell no gas.
PlainDetail == [tickLower |-> -1, tickUpper |-> 1, gasUsed |-> Null, gasPrice |-> Null]

WireRecord(c, i) ==
    [id |-> i,
     timestamp |-> ToText(upstream[c][i]),
     tickLower |-> IntText(upDetail.tickLower),
     tickUpper |-> IntText(upDetail.tickUpper),
     transaction |-> [timestamp |-> ToText(upstream[c][i]),
                      gasUsed |-> upDetail.gasUsed,
                      gasPrice |-> upDetail.gasPrice]]

\* The records of collection c from position i on, at most n of them.
RECURSIVE Take(_, _, _)
Take(c, i, n) ==
    IF n = 0 \/ i > Len(upstream[c]) THEN <<>>
    ELSE <<WireRecord(c, i)>> \o Take(c, i + 1, n - 1)

\* Every record of collection c, as the endpoint holds them.
AllRecords(c) == Take(c, 1, Len(upstream[c]))

\* The position of the first record of c with timestamp >= cursor.
FirstAtOrAfter(c, cursor) ==
    LET hit == {i \in 1..Len(upstream[c]) : upstream[c][i] >= cursor}
    IN  IF hit = {} THEN Len(upstream[c]) + 1
        ELSE CHOOSE i \in hit : \A j \in hit : i <= j

\* first: 1000, orderBy: timestamp, orderDirection: asc,
\* where: { pool, timestamp_gte: $last_timestamp }
QueryPage(c, cursor) == Take(c, FirstAtOrAfter(c, cursor), PageSize)

\* first: 1000, where: { pool }, orderBy: id
QueryAll(c) == Take(c, 1, BulkFirst)

(***************************************************************************)
(* executeGraphQLQuery.  What comes back for one request: the request      *)
(* failed in transport, or a body arrived, with or without `errors`, and   *)
(* with the page as its `data`.                                            *)
(***************************************************************************)
Answered(page) == [kind |-> "ok", failed |-> FALSE, errors |-> FALSE, data |-> page]

\* The three ways the endpoint lets a request down: no body at all, a body
\* of `errors` alone, a body of `errors` together with the data it did find.
UpstreamFailures == {"transport", "graphql", "partial"}

Failure(kind, page) ==
    [kind |-> kind,
     failed |-> (kind = "transport"),
     errors |-> (kind \in {"graphql", "partial"}),
     data |-> IF kind = "partial" THEN page ELSE <<>>]

\* The message of the error thrown, with the detail the endpoint gave:
\* axios's message, or `GraphQL query failed: ` and the errors serialised.
FailureMessage(kind) ==
    IF kind = "transport" THEN "Failed to query subgraph: transport"
    ELSE "Failed to query subgraph: GraphQL query failed"

Returned(data) == [threw |-> FALSE, message |-> "", data |-> data]
Thrown(message) == [threw |-> TRUE, message |-> message, data |-> <<>>]

\* The mutant that looks at `errors` only when there is no data.
executeGraphQLQueryLenient(response) ==
    IF response.failed THEN Thrown(FailureMessage(response.kind))
    ELSE IF response.errors /\ response.data = <<>> THEN Thrown(FailureMessage(response.kind))
    ELSE Returned(response.data)

executeGraphQLQuery(response) ==
    IF response.failed THEN Thrown(FailureMessage(response.kind))
    ELSE IF response.errors THEN Thrown(FailureMessage(response.kind))
    ELSE Returned(response.data)

(***************************************************************************)
(* The fetchers.                                                           *)
(***************************************************************************)
Last(page) == page[Len(page)]

\* The cursor after a non-empty page: fetchCollects reads the timestamp of
\* the last record's transaction, the other four the record's own.
\* The endpoint's timestamps are decimal texts, and parseInt of one is never
\* NaN.
NextCursorNoPlusOne(s, page) ==
    IF s = "collects" THEN parseInt(Last(page).transaction.timestamp).val
    ELSE parseInt(Last(page).timestamp).val

\* The mutant in which fetchCollects alone asks again from the timestamp it
\* has reached.
NextCursorCollectsApart(s, page) ==
    IF s = "collects" THEN parseInt(Last(page).transaction.timestamp).val
    ELSE parseInt(Last(page).timestamp).val + 1

NextCursor(s, page) ==
    IF s = "collects" THEN parseInt(Last(page).transaction.timestamp).val + 1
    ELSE parseInt(Last(page).timestamp).val + 1

\* Whether the loop goes round again after appending a non-empty page:
\* `if (swaps.length < 1000) break;`
ContinuesUntilEmpty(page) == TRUE

ContinuesNever(page) == ~(Len(page) <= PageSize)

Continues(page) == ~(Len(page) < PageSize)

\* The mutant that puts a page in front of what is held.
PushFront(all, page) == page \o all

\* allSwaps.push(...swaps)
Push(all, page) == all \o page

\* The mutant that calls the fetchers one after the other: the first, and
\* no other before that one is through.
BeginFirstOnly(S, minTs) ==
    LET first == IF "swaps" \in S THEN "swaps" ELSE CHOOSE s \in S : TRUE
    IN  /\ pc' = [pc EXCEPT ![first] = "waiting"]
        /\ lastTimestamp' = [lastTimestamp EXCEPT ![first] = minTs]
        /\ acc' = [acc EXCEPT ![first] = <<>>]
        /\ requests' = [requests EXCEPT ![first] = <<minTs>>]
        /\ pages' = [pages EXCEPT ![first] = <<>>]
        /\ late' = late \ S

\* The streams S are called with lower bound minTs: each runs to its first
\* await, the request of its first page.
Begin(S, minTs) ==
    /\ pc' = [s \in Streams |-> IF s \in S THEN "waiting" ELSE pc[s]]
    /\ lastTimestamp' = [s \in Streams |->
            IF s \in S \cap Paginated THEN minTs ELSE lastTimestamp[s]]
    /\ acc' = [s \in Streams |-> IF s \in S THEN <<>> ELSE acc[s]]
    /\ requests' = [s \in Streams |->
            IF s \in S \cap Paginated THEN <<minTs>>
            ELSE IF s \in S THEN <<"unfiltered">> ELSE requests[s]]
    /\ pages' = [s \in Streams |-> IF s \in S THEN <<>> ELSE pages[s]]
    /\ late' = late \ S

(***************************************************************************)
(* The index's view of a token: unknown, or known with its whitelisted     *)
(* pools in no particular order.  GetPoolForToken asks for                *)
(* whitelistPools(first: 1, orderBy: totalValueLockedUSD, desc).           *)
(***************************************************************************)
NoToken == [known |-> FALSE, id |-> "", symbol |-> "", pools |-> <<>>]
Token(id, pools) == [known |-> TRUE, id |-> id, symbol |-> "TKN", pools |-> pools]
Pool(id, tvl) == [id |-> id, tvl |-> tvl]

\* The pools in descending order of TVL, at most n of them.
RECURSIVE TopByTvl(_, _)
TopByTvl(pools, n) ==
    IF n = 0 \/ pools = <<>> THEN <<>>
    ELSE LET best == CHOOSE i \in 1..Len(pools) :
                         \A j \in 1..Len(pools) :
                             pools[j].tvl < pools[i].tvl \/ (pools[j].tvl = pools[i].tvl /\ i <= j)
             rest == SubSeq(pools, 1, best - 1) \o SubSeq(pools, best + 1, Len(pools))
         IN  <<pools[best]>> \o TopByTvl(rest, n - 1)

NoPoolInfo == [poolAddress |-> "", symbol |-> "", tvlUSD |-> 0]

(***************************************************************************)
(* The normalizer.  A CSV text is its header line, as the list of its      *)
(* column names, and its data lines, one row each; of a row the model      *)
(* keeps the event's type, id and timestamp, and the derived fields: the   *)
(* gas cost of a swap, a mint and a burn, the tick range of a mint and a   *)
(* burn.                                                                   *)
(***************************************************************************)
SwapColumns ==
    <<"swap_id", "block_number", "timestamp", "timestamp_readable",
      "tx_hash", "log_index", "sender", "recipient", "origin", "amount0",
      "amount1", "amount_usd", "sqrt_price_x96", "tick", "gas_used",
      "gas_price", "gas_cost_eth">>

LPActionColumns ==
    <<"event_id", "event_type", "block_number", "timestamp",
      "timestamp_readable", "tx_hash", "log_index", "owner", "sender",
      "origin", "tick_lower", "tick_upper", "tick_range", "amount",
      "amount0", "amount1", "amount_usd", "gas_used", "gas_price",
      "gas_cost_eth">>

PoolStatsColumns ==
    <<"block_number", "timestamp", "timestamp_readable", "liquidity",
      "sqrt_price", "tick", "token0_price", "token1_price", "tvl_usd",
      "tvl_token0", "tvl_token1", "volume_usd", "volume_token0",
      "volume_token1", "fees_usd", "collected_fees_token0",
      "collected_fees_token1", "fee_tier", "tx_count", "token0_symbol",
      "token0_decimals", "token1_symbol", "token1_decimals">>

PositionColumns ==
    <<"position_id", "owner", "tick_lower", "tick_upper", "liquidity",
      "deposited_token0", "deposited_token1", "withdrawn_token0",
      "withdrawn_token1", "collected_fees_token0",
      "collected_fees_token1", "fee_growth_inside_0",
      "fee_growth_inside_1", "created_timestamp",
      "created_timestamp_readable">>

CollectColumns ==
    <<"collect_id", "timestamp", "timestamp_readable", "tx_hash",
      "log_index", "owner", "tick_lower", "tick_upper", "amount0",
      "amount1", "amount_usd">>

TickColumns ==
    <<"tick_idx", "liquidity_gross", "liquidity_net", "price0", "price1",
      "volume_token0", "volume_token1", "volume_usd", "fees_usd",
      "collected_fees_token0", "collected_fees_token1",
      "collected_fees_usd", "fee_growth_outside_0",
      "fee_growth_outside_1", "created_timestamp", "created_block">>

\* `headers + rows`.
Csv(columns, rows) == [header |-> columns, rows |-> rows]

\* The mutant that parses a gas field as it came, null or not.
ParsedNoDefault(field) ==
    IF ~field.present THEN FloatNaN ELSE parseFloat(field.text)

\* parseFloat(field || 0)
ParsedOrZero(field) ==
    IF ~field.present \/ field.text = <<>> THEN Float(0, 0) ELSE parseFloat(field.text)

\* (parseFloat(gasUsed) * parseFloat(gasPrice)) / 1e18
GasCostEth(transaction) ==
    DividedByPowerOfTen(
        Times(ParsedOrZero(transaction.gasUsed), ParsedOrZero(transaction.gasPrice)), 18)

\* The mutant that takes the upper tick from the lower.
TickRangeDownward(r) == Minus(parseInt(r.tickLower), parseInt(r.tickUpper))

\* parseInt(mint.tickUpper) - parseInt(mint.tickLower)
TickRange(r) == Minus(parseInt(r.tickUpper), parseInt(r.tickLower))

\* A collect's row and a position's carry the timestamp of the transaction,
\* the other rows the event's own.
Row(type, r) ==
    IF type = "SWAP"
    THEN [event_type |-> type, id |-> r.id, timestamp |-> r.timestamp,
          gas_cost_eth |-> GasCostEth(r.transaction)]
    ELSE IF type \in {"MINT", "BURN"}
    THEN [event_type |-> type, id |-> r.id, timestamp |-> r.timestamp,
          tick_lower |-> r.tickLower, tick_upper |-> r.tickUpper,
          tick_range |-> TickRange(r),
          gas_cost_eth |-> GasCostEth(r.transaction)]
    ELSE [event_type |-> type, id |-> r.id,
          timestamp |-> IF type \in {"COLLECT", "POSITION"} THEN r.transaction.timestamp
                        ELSE r.timestamp]

\* records.map(...)
Rows(type, records) == [i \in 1..Len(records) |-> Row(type, records[i])]

processSwapsToCSV(swaps) ==
    IF Len(swaps) = 0 THEN Csv(SwapColumns, <<>>)
    ELSE Csv(SwapColumns, Rows("SWAP", swaps))

\* The mutant that sorts ties the other way round.
InsertRowBeforeTies(sorted, x) ==
    LET k == Cardinality({i \in 1..Len(sorted) :
                 parseInt(sorted[i].timestamp).val < parseInt(x.timestamp).val})
    IN  SubSeq(sorted, 1, k) \o <<x>> \o SubSeq(sorted, k + 1, Len(sorted))

\* Array.prototype.sort with (a, b) => parseInt(a.timestamp) - parseInt(b.timestamp):
\* a stable sort, here by insertion behind the rows that do not compare greater.
InsertRow(sorted, x) ==
    LET k == Cardinality({i \in 1..Len(sorted) :
                 parseInt(sorted[i].timestamp).val <= parseInt(x.timestamp).val})
    IN  SubSeq(sorted, 1, k) \o <<x>> \o SubSeq(sorted, k + 1, Len(sorted))

RECURSIVE SortByTimestamp(_)
SortByTimestamp(rows) ==
    IF rows = <<>> THEN <<>>
    ELSE InsertRow(SortByTimestamp(SubSeq(rows, 1, Len(rows) - 1)), rows[Len(rows)])

\* The mints are pushed, then the burns, and the whole is sorted.
processLPActionsToCSV(mints, burns) ==
    LET processed == SortByTimestamp(Rows("MINT", mints) \o Rows("BURN", burns))
    IN  IF Len(processed) = 0 THEN Csv(LPActionColumns, <<>>)
        ELSE Csv(LPActionColumns, processed)

processPoolStatsToCSV(poolStates) ==
    IF Len(poolStates) = 0 THEN Csv(PoolStatsColumns, <<>>)
    ELSE Csv(PoolStatsColumns, Rows("POOL_STATE", poolStates))

processPositionsToCSV(positions) ==
    IF Len(positions) = 0 THEN Csv(PositionColumns, <<>>)
    ELSE Csv(PositionColumns, Rows("POSITION", positions))

processCollectsToCSV(collects) ==
    IF Len(collects) = 0 THEN Csv(CollectColumns, <<>>)
    ELSE Csv(CollectColumns, Rows("COLLECT", collects))

\* The mutant that has nothing to say about no ticks.
processTicksToCSVEmptyFile(ticks) ==
    IF Len(ticks) = 0 THEN Csv(<<>>, <<>>)
    ELSE Csv(TickColumns, Rows("TICK", ticks))

processTicksToCSV(ticks) ==
    IF Len(ticks) = 0 THEN Csv(TickColumns, <<>>)
    ELSE Csv(TickColumns, Rows("TICK", ticks))

\* archive.append(csv, { name })
Table(name, csv) == [name |-> name, header |-> csv.header, rows |-> csv.rows]

\* The mutant that leaves a table without rows out of the archive.
BundleWithoutEmpty(data) ==
    SelectSeq(
        << Table("swaps.csv", processSwapsToCSV(data["swaps"])),
           Table("lp_actions.csv", processLPActionsToCSV(data["mints"], data["burns"])),
           Table("pool_stats.csv", processPoolStatsToCSV(data["poolStates"])),
           Table("positions.csv", processPositionsToCSV(data["positions"])),
           Table("collects.csv", processCollectsToCSV(data["collects"])),
           Table("ticks.csv", processTicksToCSV(data["ticks"])) >>,
        LAMBDA table : table.rows # <<>>)

\* The six files appended to the archive by GET /api/pool-data.
Bundle(data) ==
    << Table("swaps.csv", processSwapsToCSV(data["swaps"])),
       Table("lp_actions.csv", processLPActionsToCSV(data["mints"], data["burns"])),
       Table("pool_stats.csv", processPoolStatsToCSV(data["poolStates"])),
       Table("positions.csv", processPositionsToCSV(data["positions"])),
       Table("collects.csv", processCollectsToCSV(data["collects"])),
       Table("ticks.csv", processTicksToCSV(data["ticks"])) >>

ZipResponse(data) == [status |-> 200, kind |-> "zip", files |-> Bundle(data)]

\* The catch of GET /api/pool-data: whatever was thrown, status 500 and
\* `Failed to fetch pool data: ${error.message}`.
ErrorResponse(message) ==
    [status |-> 500, kind |-> "json", error |-> "Failed to fetch pool data",
     message |-> message]

BadRequestResponse == [status |-> 400, kind |-> "json",
                       error |-> "tokenAddress is required", message |-> ""]

\* The routes GET /api/csv/swaps, lp-actions, pool-stats, positions,
\* collects and ticks, each of one table.
TableRoutes == {"csv/swaps", "csv/lp-actions", "csv/pool-stats", "csv/positions",
                "csv/collects", "csv/ticks"}

\* The table a route makes of what fetchAllPoolData returned.
TableOf(route, data) ==
    CASE route = "csv/swaps" -> processSwapsToCSV(data["swaps"])
      [] route = "csv/lp-actions" -> processLPActionsToCSV(data["mints"], data["burns"])
      [] route = "csv/pool-stats" -> processPoolStatsToCSV(data["poolStates"])
      [] route = "csv/positions" -> processPositionsToCSV(data["positions"])
      [] route = "csv/collects" -> processCollectsToCSV(data["collects"])
      [] route = "csv/ticks" -> processTicksToCSV(data["ticks"])

\* res.send(swapsCSV), and so on.
TableResponse(route, data) == [status |-> 200, kind |-> "csv", csv |-> TableOf(route, data)]

\* What the catch of a route says before the message of what was thrown.
TableFailure(route) ==
    CASE route = "csv/swaps" -> "Failed to fetch swaps data"
      [] route = "csv/lp-actions" -> "Failed to fetch LP actions data"
      [] route = "csv/pool-stats" -> "Failed to fetch pool stats data"
      [] route = "csv/positions" -> "Failed to fetch positions data"
      [] route = "csv/collects" -> "Failed to fetch collects data"
      [] route = "csv/ticks" -> "Failed to fetch ticks data"

\* The catch of a table route.
TableErrorResponse(route, message) ==
    [status |-> 500, kind |-> "json", error |-> TableFailure(route), message |-> message]

\* The catch of GET /api/recent-swaps.
RecentErrorResponse(message) ==
    [status |-> 500, kind |-> "json", error |-> "Failed to fetch recent swaps",
     message |-> message]

\* The mutant that sums up also when there is no swap.
SummaryAlways(processedSwaps) == [present |-> TRUE, over |-> Len(processedSwaps)]

\* result.summary: set `if (processedSwaps.length > 0)`, over the amounts of
\* all the swaps of the response; otherwise the result has no summary.
Summary(processedSwaps) ==
    IF Len(processedSwaps) > 0 THEN [present |-> TRUE, over |-> Len(processedSwaps)]
    ELSE [present |-> FALSE, over |-> 0]

\* res.json(result) of GET /api/recent-swaps.
RecentResponse(swaps) ==
    [status |-> 200, kind |-> "json", error |-> "", message |-> "",
     swap_count |-> Len(Rows("SWAP", swaps)), swaps |-> Rows("SWAP", swaps),
     summary |-> Summary(Rows("SWAP", swaps))]

\* The catch of GET /api/latest-swaps.
LatestErrorResponse(message) ==
    [status |-> 500, kind |-> "json", error |-> "Failed to fetch latest swaps",
     message |-> message]

\* result.latest_price: of the last swap, when there is one.
LatestPrice(processedSwaps) ==
    IF Len(processedSwaps) > 0 THEN <<Last(processedSwaps)>> ELSE <<>>

\* res.json(result) of GET /api/latest-swaps.
LatestResponse(swaps) ==
    [status |-> 200, kind |-> "json", error |-> "", message |-> "",
     swap_count |-> Len(Rows("SWAP", swaps)), swaps |-> Rows("SWAP", swaps),
     summary |-> Summary(Rows("SWAP", swaps)),
     latest_price |-> LatestPrice(Rows("SWAP", swaps))]

(***************************************************************************)
(* fetchAllPoolData's Promise.all over the seven fetchers, and the         *)
(* handler continuation it resumes: the first rejection rejects it and the *)
(* catch answers; the seventh fulfilment resolves it, the six tables are   *)
(* appended to the archive piped into the response, and the handler awaits *)
(* archive.finalize().  A table route awaits the same Promise.all and      *)
(* sends its one table.  GET /api/recent-swaps and GET /api/latest-swaps   *)
(* await the swap fetcher alone and answer when it returns or throws.      *)
(* Where a fetcher is called directly there is nothing to settle.          *)
(***************************************************************************)
SettleAllSettled(newPc, newAcc, message) ==
    IF reqPc = "fetching" /\ joined = "pending"
          /\ \A s \in Streams : newPc[s] \in {"done", "failed"}
    THEN /\ joined' = "resolved"
         /\ responses' = Append(responses, ZipResponse(newAcc))
         /\ reqPc' = "responded"
         /\ archive' = "finalizing"
    ELSE UNCHANGED <<joined, responses, reqPc, archive>>

\* The streams whose records the table of a route is made of.
TableStreams(route) ==
    CASE route = "csv/swaps" -> {"swaps"}
      [] route = "csv/lp-actions" -> {"mints", "burns"}
      [] route = "csv/pool-stats" -> {"poolStates"}
      [] route = "csv/positions" -> {"positions"}
      [] route = "csv/collects" -> {"collects"}
      [] route = "csv/ticks" -> {"ticks"}

\* The mutant in which a table route waits for the streams of its own table
\* and fails by them alone.
SettleOwnTable(newPc, newAcc, message) ==
    IF reqPc = "fetching" /\ joined = "pending"
          /\ \E s \in Streams : newPc[s] = "failed"
    THEN /\ joined' = "rejected"
         /\ responses' = Append(responses, ErrorResponse(message))
         /\ reqPc' = "responded"
         /\ UNCHANGED archive
    ELSE IF reqPc = "fetching" /\ joined = "pending"
          /\ \A s \in Streams : newPc[s] = "done"
    THEN /\ joined' = "resolved"
         /\ responses' = Append(responses, ZipResponse(newAcc))
         /\ reqPc' = "responded"
         /\ archive' = "finalizing"
    ELSE IF reqPc = "fetching-table" /\ joined = "pending"
          /\ \E s \in TableStreams(endpoint) : newPc[s] = "failed"
    THEN /\ joined' = "rejected"
         /\ responses' = Append(responses, TableErrorResponse(endpoint, message))
         /\ reqPc' = "responded"
         /\ UNCHANGED archive
    ELSE IF reqPc = "fetching-table" /\ joined = "pending"
          /\ \A s \in TableStreams(endpoint) : newPc[s] = "done"
    THEN /\ joined' = "resolved"
         /\ responses' = Append(responses, TableResponse(endpoint, newAcc))
         /\ reqPc' = "responded"
         /\ UNCHANGED archive
    ELSE IF reqPc = "fetching-recent" /\ newPc["swaps"] = "failed"
    THEN /\ responses' = Append(responses, RecentErrorResponse(message))
         /\ reqPc' = "responded"
         /\ UNCHANGED <<joined, archive>>
    ELSE IF reqPc = "fetching-recent" /\ newPc["swaps"] = "done"
    THEN /\ responses' = Append(responses, RecentResponse(newAcc["swaps"]))
         /\ reqPc' = "responded"
         /\ UNCHANGED <<joined, archive>>
    ELSE IF reqPc = "fetching-latest" /\ newPc["swaps"] = "failed"
    THEN /\ responses' = Append(responses, LatestErrorResponse(message))
         /\ reqPc' = "responded"
         /\ UNCHANGED <<joined, archive>>
    ELSE IF reqPc = "fetching-latest" /\ newPc["swaps"] = "done"
    THEN /\ responses' = Append(responses, LatestResponse(newAcc["swaps"]))
         /\ reqPc' = "responded"
         /\ UNCHANGED <<joined, archive>>
    ELSE UNCHANGED <<joined, responses, reqPc, archive>>

Settle(newPc, newAcc, message) ==
    IF reqPc = "fetching" /\ joined = "pending"
          /\ \E s \in Streams : newPc[s] = "failed"
    THEN /\ joined' = "rejected"
         /\ responses' = Append(responses, ErrorResponse(message))
         /\ reqPc' = "responded"
         /\ UNCHANGED archive
    ELSE IF reqPc = "fetching" /\ joined = "pending"
          /\ \A s \in Streams : newPc[s] = "done"
    THEN /\ joined' = "resolved"
         /\ responses' = Append(responses, ZipResponse(newAcc))
         /\ reqPc' = "responded"
         /\ archive' = "finalizing"
    ELSE IF reqPc = "fetching-table" /\ joined = "pending"
          /\ \E s \in Streams : newPc[s] = "failed"
    THEN /\ joined' = "rejected"
         /\ responses' = Append(responses, TableErrorResponse(endpoint, message))
         /\ reqPc' = "responded"
         /\ UNCHANGED archive
    ELSE IF reqPc = "fetching-table" /\ joined = "pending"
          /\ \A s \in Streams : newPc[s] = "done"
    THEN /\ joined' = "resolved"
         /\ responses' = Append(responses, TableResponse(endpoint, newAcc))
         /\ reqPc' = "responded"
         /\ UNCHANGED archive
    ELSE IF reqPc = "fetching-recent" /\ newPc["swaps"] = "failed"
    THEN /\ responses' = Append(responses, RecentErrorResponse(message))
         /\ reqPc' = "responded"
         /\ UNCHANGED <<joined, archive>>
    ELSE IF reqPc = "fetching-recent" /\ newPc["swaps"] = "done"
    THEN /\ responses' = Append(responses, RecentResponse(newAcc["swaps"]))
         /\ reqPc' = "responded"
         /\ UNCHANGED <<joined, archive>>
    ELSE IF reqPc = "fetching-latest" /\ newPc["swaps"] = "failed"
    THEN /\ responses' = Append(responses, LatestErrorResponse(message))
         /\ reqPc' = "responded"
         /\ UNCHANGED <<joined, archive>>
    ELSE IF reqPc = "fetching-latest" /\ newPc["swaps"] = "done"
    THEN /\ responses' = Append(responses, LatestResponse(newAcc["swaps"]))
         /\ reqPc' = "responded"
         /\ UNCHANGED <<joined, archive>>
    ELSE UNCHANGED <<joined, responses, reqPc, archive>>

\* The mutant in which a settled Promise.all stops the fetchers.
ResumesUnlessSettled(s) == pc[s] = "waiting" /\ joined = "pending"

\* The await of stream s is resumed by what comes back for its request,
\* whatever has become of the other streams and of the Promise.all.
Resumes(s) == pc[s] = "waiting"

\* Stream s asks for a further page: after the Promise.all settled, or before.
AskedBy(s) == IF joined = "pending" THEN late ELSE late \cup {s}

\* The mutant that asks for two pages at a time.
NextRequestsAhead(s, cursor) == <<cursor, cursor + 1>>

\* The requests issued when the loop goes round: the one for the next page.
NextRequests(s, cursor) == <<cursor>>

(***************************************************************************)
(* One page arrives for the paginated stream s: the body of its            *)
(* while (true) loop from the await to the next await or the return.       *)
(***************************************************************************)
RecvPage(s) ==
    /\ s \in Paginated
    /\ Resumes(s)
    /\ Len(requests[s]) < MaxRequests
    /\ \E response \in {Answered(QueryPage(CollectionOf(s), lastTimestamp[s]))} :
       LET page == executeGraphQLQuery(response).data
           cursor == IF page = <<>> THEN lastTimestamp[s] ELSE NextCursor(s, page)
           goesOn == page # <<>> /\ Continues(page)
           newPc == [pc EXCEPT ![s] = IF goesOn THEN "waiting" ELSE "done"]
           newAcc == [acc EXCEPT ![s] = IF page = <<>> THEN acc[s] ELSE Push(acc[s], page)]
       IN  /\ received' = [received EXCEPT ![s] = Append(received[s], response)]
           /\ pages' = [pages EXCEPT ![s] = Append(pages[s], page)]
           /\ acc' = newAcc
           /\ lastTimestamp' = [lastTimestamp EXCEPT ![s] = cursor]
           /\ requests' = [requests EXCEPT ![s] =
                               IF goesOn THEN requests[s] \o NextRequests(s, cursor)
                               ELSE requests[s]]
           /\ pc' = newPc
           /\ late' = IF goesOn THEN AskedBy(s) ELSE late
           /\ Settle(newPc, newAcc, "")
    /\ UNCHANGED <<upVars, tokenAddress, days, daysNum, minTimestamp, poolInfo,
                 resolveRequests, ampVars, procVars, loopVars>>

\* The one response of fetchPositions or fetchTicks arrives.
RecvBulk(s) ==
    /\ s \in Bulk
    /\ Resumes(s)
    /\ LET response == Answered(QueryAll(CollectionOf(s)))
           page == executeGraphQLQuery(response).data
           newPc == [pc EXCEPT ![s] = "done"]
           newAcc == [acc EXCEPT ![s] = acc[s] \o page]
       IN  /\ received' = [received EXCEPT ![s] = Append(received[s], response)]
           /\ pages' = [pages EXCEPT ![s] = Append(pages[s], page)]
           /\ acc' = newAcc
           /\ pc' = newPc
           /\ Settle(newPc, newAcc, "")
    /\ UNCHANGED <<upVars, tokenAddress, days, daysNum, minTimestamp, poolInfo,
                 resolveRequests, ampVars, procVars, loopVars>>
    /\ UNCHANGED <<lastTimestamp, requests, late>>

\* What the endpoint finds for the request stream s is waiting on.
Found(s) ==
    IF s \in Paginated THEN QueryPage(CollectionOf(s), lastTimestamp[s])
    ELSE QueryAll(CollectionOf(s))

\* The mutant that asks again after a failure.
RecvErrorRetry(s, kind) ==
    /\ pc[s] = "waiting"
    /\ Len(requests[s]) < MaxRequests
    /\ received' = [received EXCEPT ![s] = Append(received[s], Failure(kind, Found(s)))]
    /\ requests' = [requests EXCEPT ![s] = Append(requests[s], Last(requests[s]))]
    /\ UNCHANGED <<upVars, reqVars, ampVars, procVars, loopVars>>
    /\ UNCHANGED <<pc, lastTimestamp, acc, pages, late>>

\* The endpoint lets stream s's request down.  The fetcher has no catch:
\* what executeGraphQLQuery throws ends it; what it returned would be a page
\* like any other.
RecvError(s, kind) ==
    /\ Resumes(s)
    /\ LET response == Failure(kind, Found(s))
           outcome == executeGraphQLQuery(response)
           page == outcome.data
           newPc == [pc EXCEPT ![s] = IF outcome.threw THEN "failed" ELSE "done"]
           newAcc == [acc EXCEPT ![s] = acc[s] \o page]
       IN  /\ received' = [received EXCEPT ![s] = Append(received[s], response)]
           /\ pc' = newPc
           /\ acc' = newAcc
           /\ pages' = [pages EXCEPT ![s] =
                            IF outcome.threw THEN pages[s] ELSE Append(pages[s], page)]
           /\ Settle(newPc, newAcc, outcome.message)
    /\ UNCHANGED <<upVars, tokenAddress, days, daysNum, minTimestamp, poolInfo,
                 resolveRequests, ampVars, procVars, loopVars>>
    /\ UNCHANGED <<lastTimestamp, requests, late>>

(***************************************************************************)
(* A body without `errors` in which the collection asked for is missing:   *)
(* it has no `data` at all, or a `data` without the key of the entity.     *)
(***************************************************************************)
LackingShapes == {"no-data", "no-key"}

\* Such a body: there are no records in it.
Lacking(shape) == [kind |-> shape, failed |-> FALSE, errors |-> FALSE, data |-> <<>>]

\* The mutant that reads the length of the collection without a default.
EntityOrThrow(response, outcome) ==
    IF outcome.threw THEN outcome
    ELSE IF response.kind \in LackingShapes
         THEN Thrown("Cannot read properties of undefined (reading 'length')")
    ELSE outcome

\* `data.swaps || []` of the `response.data.data || {}` executeGraphQLQuery
\* returned: the records under the key, or none when the key is missing.
EntityOrEmpty(response, outcome) ==
    IF outcome.threw THEN outcome
    ELSE IF response.kind \in LackingShapes THEN Returned(<<>>)
    ELSE outcome

\* The endpoint answers stream s's request with such a body: the fetcher
\* takes it for a page, an empty one, at which the loop of a paginated
\* fetcher breaks and a bulk fetcher pushes nothing.
RecvLacking(s, shape) ==
    /\ Resumes(s)
    /\ LET response == Lacking(shape)
           outcome == EntityOrEmpty(response, executeGraphQLQuery(response))
           page == outcome.data
           newPc == [pc EXCEPT ![s] = IF outcome.threw THEN "failed" ELSE "done"]
           newAcc == [acc EXCEPT ![s] = IF page = <<>> THEN acc[s] ELSE Push(acc[s], page)]
       IN  /\ received' = [received EXCEPT ![s] = Append(received[s], response)]
           /\ pc' = newPc
           /\ acc' = newAcc
           /\ pages' = [pages EXCEPT ![s] =
                            IF outcome.threw THEN pages[s] ELSE Append(pages[s], page)]
           /\ Settle(newPc, newAcc, outcome.message)
    /\ UNCHANGED <<upVars, tokenAddress, days, daysNum, minTimestamp, poolInfo,
                 resolveRequests, ampVars, procVars, loopVars>>
    /\ UNCHANGED <<lastTimestamp, requests, late>>

(***************************************************************************)
(* A single stream run: one fetcher is called directly (as the swap        *)
(* fetcher is by GET /api/recent-swaps) against a static upstream.         *)
(***************************************************************************)
SortedSeqs(maxLen, maxVal) ==
    {u \in UNION {[1..n -> 0..maxVal] : n \in 0..maxLen} :
        \A i \in 1..(Len(u) - 1) : u[i] <= u[i + 1]}

IdleStreams ==
    /\ pc = [s \in Streams |-> "idle"]
    /\ lastTimestamp = [s \in Streams |-> 0]
    /\ acc = [s \in Streams |-> <<>>]
    /\ requests = [s \in Streams |-> <<>>]
    /\ pages = [s \in Streams |-> <<>>]
    /\ late = {}
    /\ received = [c \in Calls |-> <<>>]

IdleAmp ==
    /\ ampBatches = <<>>
    /\ ampConsumed = 0
    /\ ampResults = <<>>
    /\ ampPc = "idle"

\* A request of route, with both clients created at startup.
IdleProc(route) ==
    /\ endpoint = route
    /\ ampClient = TRUE
    /\ openaiClient = TRUE
    /\ userQuery = Absent
    /\ llmRequests = <<>>
    /\ ampQueries = <<>>

\* The one request of a run.
IdleLoop ==
    /\ current = 1
    /\ parked = <<>>

InitStream ==
    /\ \E u \in SortedSeqs(MaxRecords, MaxTime) : upstream = [c \in Collections |-> u]
    /\ upToken = NoToken
    /\ upDetail = PlainDetail
    /\ tokenAddress = Absent
    /\ days = Absent
    /\ reqPc = "direct"
    /\ archive = "none"
    /\ daysNum = NaN
    /\ minTimestamp \in 0..MaxMinTimestamp
    /\ poolInfo = NoPoolInfo
    /\ resolveRequests = <<>>
    /\ joined = "pending"
    /\ responses = <<>>
    /\ IdleStreams
    /\ IdleAmp
    /\ IdleProc("direct")
    /\ IdleLoop

StartStream(s) ==
    /\ reqPc = "direct"
    /\ \A t \in Streams : pc[t] = "idle"
    /\ Begin({s}, minTimestamp)
    /\ UNCHANGED <<upVars, reqVars, ampVars, procVars, loopVars, received>>

NextStream ==
    \E s \in Streams :
        \/ StartStream(s)
        \/ RecvPage(s)
        \/ RecvBulk(s)
        \/ \E kind \in UpstreamFailures : RecvError(s, kind)

SpecStream == InitStream /\ [][NextStream]_vars

\* A single stream run against an endpoint that serves the pages asked for
\* or, at any request, a body that lacks the collection.
NextStreamLacking ==
    \E s \in Streams :
        \/ StartStream(s)
        \/ RecvPage(s)
        \/ RecvBulk(s)
        \/ \E shape \in LackingShapes : RecvLacking(s, shape)

SpecStreamLacking == InitStream /\ [][NextStreamLacking]_vars

\* The page of the request the running paginator is awaiting comes back.
PageArrives == \E s \in Paginated : RecvPage(s)

\* A paginator run in which the upstream serves every page asked for: one
\* of the five paginated fetchers is called directly, and axios resolves
\* each post with the page in the end (config.queryTimeout bounds the wait).
\* One fetcher runs, so one request at a time is awaited.
NextStreamAnswered ==
    \/ \E s \in Paginated : StartStream(s)
    \/ PageArrives

SpecStreamAnswered ==
    /\ InitStream
    /\ [][NextStreamAnswered]_vars
    /\ WF_vars(PageArrives)


(***************************************************************************)
(* GET /api/pool-data.                                                     *)
(***************************************************************************)
\* tokenAddress.toLowerCase(), on the addresses of the model.
toLowerCase(a) == IF a = "0xABC" THEN "0xabc" ELSE a

\* `!tokenAddress`: absent or empty.
Falsy(param) == ~param.present \/ param.text = ""

\* `days = 1` when the parameter is absent, then parseInt(days).
DaysNum(param) == IF param.present THEN parseInt(param.text) ELSE parseInt(<<"1">>)

\* isNaN(daysNum) || daysNum < 1 || daysNum > config.maxDays
DaysRejected(n) == isNaN(n) \/ n.val < 1 \/ n.val > maxDays

DaysMessage == "days must be between 1 and 30"

\* The mutant whose window is one day whatever was asked for.
MinTimestampOneDay(n) == NowSeconds - DaySeconds

\* now - daysNum * 24 * 60 * 60 * 1000 milliseconds, floored to seconds: the
\* clock is kept in seconds here, the product being a whole number of them.
MinTimestamp(n) == NowSeconds - n.val * DaySeconds

\* data.token of the lookup's response.
LookupToken ==
    [known |-> upToken.known, id |-> upToken.id, symbol |-> upToken.symbol,
     whitelistPools |-> TopByTvl(upToken.pools, 1)]

\* `const pool = data.token.whitelistPools[0]`
ChosenPool(token) == token.whitelistPools[1]

PoolInfo(token) ==
    [poolAddress |-> ChosenPool(token).id, symbol |-> token.symbol,
     tvlUSD |-> ChosenPool(token).tvl]

\* The mutant that keeps the pool it resolved for a token and does not look
\* it up again.
HandleRequestCached ==
    /\ reqPc = "start"
    /\ endpoint = "pool-data"
    /\ ~Falsy(tokenAddress)
    /\ ~DaysRejected(DaysNum(days))
    /\ daysNum' = DaysNum(days)
    /\ IF \E q \in DOMAIN parked : parked[q].poolInfo # NoPoolInfo
       THEN /\ poolInfo' = PoolInfo(LookupToken)
            /\ minTimestamp' = MinTimestamp(DaysNum(days))
            /\ Begin(Streams, MinTimestamp(DaysNum(days)))
            /\ reqPc' = "fetching"
            /\ UNCHANGED resolveRequests
       ELSE /\ resolveRequests' = Append(resolveRequests, toLowerCase(tokenAddress.text))
            /\ reqPc' = "resolving"
            /\ UNCHANGED <<poolInfo, minTimestamp, fetchVars>>
    /\ UNCHANGED <<upVars, tokenAddress, archive, days, joined, responses, received,
                   ampVars, procVars, loopVars>>

\* The mutant that looks the pool up whatever the window asked for.
HandleRequestResolveFirst ==
    /\ reqPc = "start"
    /\ endpoint = "pool-data"
    /\ \/ /\ Falsy(tokenAddress)
          /\ responses' = Append(responses, BadRequestResponse)
          /\ reqPc' = "responded"
          /\ UNCHANGED <<daysNum, resolveRequests>>
       \/ /\ ~Falsy(tokenAddress)
          /\ daysNum' = DaysNum(days)
          /\ resolveRequests' = Append(resolveRequests, toLowerCase(tokenAddress.text))
          /\ reqPc' = "resolving"
          /\ UNCHANGED responses
    /\ UNCHANGED <<upVars, tokenAddress, archive, days, minTimestamp, poolInfo, joined,
                   streamVars, ampVars, procVars, loopVars>>

\* The request arrives.  The handler runs to its first response or to its
\* first await, the pool lookup of getPoolFromToken.
HandleRequest ==
    /\ reqPc = "start"
    /\ endpoint = "pool-data"
    /\ \/ /\ Falsy(tokenAddress)
          /\ responses' = Append(responses, BadRequestResponse)
          /\ reqPc' = "responded"
          /\ UNCHANGED <<daysNum, resolveRequests>>
       \/ /\ ~Falsy(tokenAddress)
          /\ DaysRejected(DaysNum(days))
          /\ daysNum' = DaysNum(days)
          /\ responses' = Append(responses, ErrorResponse(DaysMessage))
          /\ reqPc' = "responded"
          /\ UNCHANGED resolveRequests
       \/ /\ ~Falsy(tokenAddress)
          /\ ~DaysRejected(DaysNum(days))
          /\ daysNum' = DaysNum(days)
          /\ resolveRequests' = Append(resolveRequests, toLowerCase(tokenAddress.text))
          /\ reqPc' = "resolving"
          /\ UNCHANGED responses
    /\ UNCHANGED <<upVars, tokenAddress, archive, days, minTimestamp, poolInfo, joined,
                   streamVars, ampVars, procVars, loopVars>>

\* The lookup's response arrives.  getPoolFromToken throws for an unknown
\* token and for a token without pools; otherwise fetchAllPoolData computes
\* the window and calls the seven fetchers, each up to its first request.
ResolveRecv ==
    /\ reqPc = "resolving"
    /\ endpoint = "pool-data"
    /\ received' = [received EXCEPT !["lookup"] = Append(@, Answered(<<LookupToken>>))]
    /\ LET token == executeGraphQLQuery(Answered(<<LookupToken>>)).data[1]
       IN  \/ /\ ~token.known
              /\ responses' = Append(responses, ErrorResponse("Token not found in subgraph"))
              /\ reqPc' = "responded"
              /\ UNCHANGED <<poolInfo, minTimestamp, fetchVars>>
           \/ /\ token.known
              /\ Len(token.whitelistPools) = 0
              /\ responses' = Append(responses, ErrorResponse("No pools found for token"))
              /\ reqPc' = "responded"
              /\ UNCHANGED <<poolInfo, minTimestamp, fetchVars>>
           \/ /\ token.known
              /\ Len(token.whitelistPools) # 0
              /\ poolInfo' = PoolInfo(token)
              /\ minTimestamp' = MinTimestamp(daysNum)
              /\ Begin(Streams, MinTimestamp(daysNum))
              /\ reqPc' = "fetching"
              /\ UNCHANGED responses
    /\ UNCHANGED <<upVars, tokenAddress, archive, days, daysNum, resolveRequests, joined, ampVars, procVars, loopVars>>

\* executeGraphQLQuery throws for the lookup.
ResolveError(kind) ==
    /\ reqPc = "resolving"
    /\ endpoint = "pool-data"
    /\ LET response == Failure(kind, <<LookupToken>>)
           outcome == executeGraphQLQuery(response)
       IN  /\ outcome.threw
           /\ received' = [received EXCEPT !["lookup"] = Append(@, response)]
           /\ responses' = Append(responses, ErrorResponse(outcome.message))
    /\ reqPc' = "responded"
    /\ UNCHANGED <<upVars, tokenAddress, archive, days, daysNum, minTimestamp, poolInfo,
                   resolveRequests, joined, fetchVars, ampVars, procVars, loopVars>>

(***************************************************************************)
(* The archive of GET /api/pool-data, once piped into the response and     *)
(* given its six files: it ends, or it emits `error`.                      *)
(***************************************************************************)
\* The listener of the archive's `error` event.
ArchiveErrorResponse ==
    [status |-> 500, kind |-> "json", error |-> "Failed to create ZIP file", message |-> ""]

\* archive.finalize() resolves: the handler returns.
ArchiveEnd ==
    /\ archive = "finalizing"
    /\ archive' = "ended"
    /\ UNCHANGED <<upVars, tokenAddress, days, reqPc, daysNum, minTimestamp, poolInfo,
                   resolveRequests, joined, responses, streamVars, ampVars, procVars,
                   loopVars>>

\* The archive emits `error`: the listener sets about a response of its own.
ArchiveError ==
    /\ archive = "finalizing"
    /\ responses' = Append(responses, ArchiveErrorResponse)
    /\ archive' = "failed"
    /\ UNCHANGED <<upVars, tokenAddress, days, reqPc, daysNum, minTimestamp, poolInfo,
                   resolveRequests, joined, streamVars, ampVars, procVars, loopVars>>

\* archive.finalize() rejects with the error the archive emitted: the catch
\* of the handler sets about its response as for any other error.
ArchiveCatch ==
    /\ archive = "failed"
    /\ responses' = Append(responses, ErrorResponse("archive error"))
    /\ archive' = "caught"
    /\ UNCHANGED <<upVars, tokenAddress, days, reqPc, daysNum, minTimestamp, poolInfo,
                   resolveRequests, joined, streamVars, ampVars, procVars, loopVars>>

(***************************************************************************)
(* GET /api/recent-swaps.                                                  *)
(***************************************************************************)
\* The mutant that looks the pool up before it looks at the parameter.
HandleRecentLookupFirst ==
    /\ reqPc = "start"
    /\ endpoint = "recent-swaps"
    /\ resolveRequests' = Append(resolveRequests, toLowerCase(tokenAddress.text))
    /\ reqPc' = "resolving"
    /\ UNCHANGED <<upVars, tokenAddress, archive, days, daysNum, minTimestamp, poolInfo, joined,
                   responses, streamVars, ampVars, procVars, loopVars>>

\* The request arrives: the handler answers 400, or runs to the pool lookup
\* of getPoolFromToken.
HandleRecent ==
    /\ reqPc = "start"
    /\ endpoint = "recent-swaps"
    /\ \/ /\ Falsy(tokenAddress)
          /\ responses' = Append(responses, BadRequestResponse)
          /\ reqPc' = "responded"
          /\ UNCHANGED resolveRequests
       \/ /\ ~Falsy(tokenAddress)
          /\ resolveRequests' = Append(resolveRequests, toLowerCase(tokenAddress.text))
          /\ reqPc' = "resolving"
          /\ UNCHANGED responses
    /\ UNCHANGED <<upVars, tokenAddress, archive, days, daysNum, minTimestamp, poolInfo, joined,
                   streamVars, ampVars, procVars, loopVars>>

\* The lookup's response arrives: getPoolFromToken throws, or the swap
\* fetcher is called for the last ten minutes.
RecentResolveRecv ==
    /\ reqPc = "resolving"
    /\ endpoint = "recent-swaps"
    /\ received' = [received EXCEPT !["lookup"] = Append(@, Answered(<<LookupToken>>))]
    /\ LET token == executeGraphQLQuery(Answered(<<LookupToken>>)).data[1]
       IN  \/ /\ ~token.known
              /\ responses' = Append(responses, RecentErrorResponse("Token not found in subgraph"))
              /\ reqPc' = "responded"
              /\ UNCHANGED <<poolInfo, minTimestamp, fetchVars>>
           \/ /\ token.known
              /\ Len(token.whitelistPools) = 0
              /\ responses' = Append(responses, RecentErrorResponse("No pools found for token"))
              /\ reqPc' = "responded"
              /\ UNCHANGED <<poolInfo, minTimestamp, fetchVars>>
           \/ /\ token.known
              /\ Len(token.whitelistPools) # 0
              /\ poolInfo' = PoolInfo(token)
              /\ minTimestamp' = NowSeconds - RecentSeconds
              /\ Begin({"swaps"}, NowSeconds - RecentSeconds)
              /\ reqPc' = "fetching-recent"
              /\ UNCHANGED responses
    /\ UNCHANGED <<upVars, tokenAddress, archive, days, daysNum, resolveRequests, joined, ampVars,
                   procVars, loopVars>>

\* executeGraphQLQuery throws for the lookup.
RecentResolveError(kind) ==
    /\ reqPc = "resolving"
    /\ endpoint = "recent-swaps"
    /\ LET response == Failure(kind, <<LookupToken>>)
           outcome == executeGraphQLQuery(response)
       IN  /\ outcome.threw
           /\ received' = [received EXCEPT !["lookup"] = Append(@, response)]
           /\ responses' = Append(responses, RecentErrorResponse(outcome.message))
    /\ reqPc' = "responded"
    /\ UNCHANGED <<upVars, tokenAddress, archive, days, daysNum, minTimestamp, poolInfo,
                   resolveRequests, joined, fetchVars, ampVars, procVars, loopVars>>

(***************************************************************************)
(* GET /api/latest-swaps: the handler of GET /api/recent-swaps over the    *)
(* last five seconds.                                                      *)
(***************************************************************************)
\* The request arrives: a response, or the pool lookup.
HandleLatest ==
    /\ reqPc = "start"
    /\ endpoint = "latest-swaps"
    /\ \/ /\ Falsy(tokenAddress)
          /\ responses' = Append(responses, BadRequestResponse)
          /\ reqPc' = "responded"
          /\ UNCHANGED resolveRequests
       \/ /\ ~Falsy(tokenAddress)
          /\ resolveRequests' = Append(resolveRequests, toLowerCase(tokenAddress.text))
          /\ reqPc' = "resolving"
          /\ UNCHANGED responses
    /\ UNCHANGED <<upVars, tokenAddress, archive, days, daysNum, minTimestamp, poolInfo, joined,
                   streamVars, ampVars, procVars, loopVars>>

\* The lookup's response arrives: getPoolFromToken throws, or the swap
\* fetcher is called for the last five seconds.
LatestResolveRecv ==
    /\ reqPc = "resolving"
    /\ endpoint = "latest-swaps"
    /\ received' = [received EXCEPT !["lookup"] = Append(@, Answered(<<LookupToken>>))]
    /\ LET token == executeGraphQLQuery(Answered(<<LookupToken>>)).data[1]
       IN  \/ /\ ~token.known
              /\ responses' = Append(responses, LatestErrorResponse("Token not found in subgraph"))
              /\ reqPc' = "responded"
              /\ UNCHANGED <<poolInfo, minTimestamp, fetchVars>>
           \/ /\ token.known
              /\ Len(token.whitelistPools) = 0
              /\ responses' = Append(responses, LatestErrorResponse("No pools found for token"))
              /\ reqPc' = "responded"
              /\ UNCHANGED <<poolInfo, minTimestamp, fetchVars>>
           \/ /\ token.known
              /\ Len(token.whitelistPools) # 0
              /\ poolInfo' = PoolInfo(token)
              /\ minTimestamp' = NowSeconds - LatestSeconds
              /\ Begin({"swaps"}, NowSeconds - LatestSeconds)
              /\ reqPc' = "fetching-latest"
              /\ UNCHANGED responses
    /\ UNCHANGED <<upVars, tokenAddress, archive, days, daysNum, resolveRequests, joined, ampVars,
                   procVars, loopVars>>

\* executeGraphQLQuery throws for the lookup.
LatestResolveError(kind) ==
    /\ reqPc = "resolving"
    /\ endpoint = "latest-swaps"
    /\ LET response == Failure(kind, <<LookupToken>>)
           outcome == executeGraphQLQuery(response)
       IN  /\ outcome.threw
           /\ received' = [received EXCEPT !["lookup"] = Append(@, response)]
           /\ responses' = Append(responses, LatestErrorResponse(outcome.message))
    /\ reqPc' = "responded"
    /\ UNCHANGED <<upVars, tokenAddress, archive, days, daysNum, minTimestamp, poolInfo,
                   resolveRequests, joined, fetchVars, ampVars, procVars, loopVars>>

(***************************************************************************)
(* GET /api/csv/swaps and the five routes like it: the handler of the      *)
(* bundle route up to the await of fetchAllPoolData, then one table sent.  *)
(***************************************************************************)
\* The request arrives: a response, or the pool lookup of fetchAllPoolData.
HandleTable ==
    /\ reqPc = "start"
    /\ endpoint \in TableRoutes
    /\ \/ /\ Falsy(tokenAddress)
          /\ responses' = Append(responses, BadRequestResponse)
          /\ reqPc' = "responded"
          /\ UNCHANGED <<daysNum, resolveRequests>>
       \/ /\ ~Falsy(tokenAddress)
          /\ DaysRejected(DaysNum(days))
          /\ daysNum' = DaysNum(days)
          /\ responses' = Append(responses, TableErrorResponse(endpoint, DaysMessage))
          /\ reqPc' = "responded"
          /\ UNCHANGED resolveRequests
       \/ /\ ~Falsy(tokenAddress)
          /\ ~DaysRejected(DaysNum(days))
          /\ daysNum' = DaysNum(days)
          /\ resolveRequests' = Append(resolveRequests, toLowerCase(tokenAddress.text))
          /\ reqPc' = "resolving"
          /\ UNCHANGED responses
    /\ UNCHANGED <<upVars, tokenAddress, archive, days, minTimestamp, poolInfo, joined,
                   streamVars, ampVars, procVars, loopVars>>

\* The lookup's response arrives: getPoolFromToken throws, or
\* fetchAllPoolData calls the seven fetchers.
TableResolveRecv ==
    /\ reqPc = "resolving"
    /\ endpoint \in TableRoutes
    /\ received' = [received EXCEPT !["lookup"] = Append(@, Answered(<<LookupToken>>))]
    /\ LET token == executeGraphQLQuery(Answered(<<LookupToken>>)).data[1]
       IN  \/ /\ ~token.known
              /\ responses' = Append(responses,
                                     TableErrorResponse(endpoint, "Token not found in subgraph"))
              /\ reqPc' = "responded"
              /\ UNCHANGED <<poolInfo, minTimestamp, fetchVars>>
           \/ /\ token.known
              /\ Len(token.whitelistPools) = 0
              /\ responses' = Append(responses,
                                     TableErrorResponse(endpoint, "No pools found for token"))
              /\ reqPc' = "responded"
              /\ UNCHANGED <<poolInfo, minTimestamp, fetchVars>>
           \/ /\ token.known
              /\ Len(token.whitelistPools) # 0
              /\ poolInfo' = PoolInfo(token)
              /\ minTimestamp' = MinTimestamp(daysNum)
              /\ Begin(Streams, MinTimestamp(daysNum))
              /\ reqPc' = "fetching-table"
              /\ UNCHANGED responses
    /\ UNCHANGED <<upVars, tokenAddress, archive, days, daysNum, resolveRequests, joined, ampVars,
                   procVars, loopVars>>

\* executeGraphQLQuery throws for the lookup.
TableResolveError(kind) ==
    /\ reqPc = "resolving"
    /\ endpoint \in TableRoutes
    /\ LET response == Failure(kind, <<LookupToken>>)
           outcome == executeGraphQLQuery(response)
       IN  /\ outcome.threw
           /\ received' = [received EXCEPT !["lookup"] = Append(@, response)]
           /\ responses' = Append(responses, TableErrorResponse(endpoint, outcome.message))
    /\ reqPc' = "responded"
    /\ UNCHANGED <<upVars, tokenAddress, archive, days, daysNum, minTimestamp, poolInfo,
                   resolveRequests, joined, fetchVars, ampVars, procVars, loopVars>>

(***************************************************************************)
(* executeAMPQuery: `for await (const batch of ampClient.query(sql))`.     *)
(***************************************************************************)
\* The rows of batch k of the engine's answer.
BatchRows(k) == [j \in 1..ampBatches[k] |-> <<k, j>>]

\* `if (results.length > config.ampMaxRows) break;`
OverLimit(results) == Len(results) > ampMaxRows

\* executeAMPQuery is called: `const results = []`, and the engine is asked
\* for its first batch.
AmpCall ==
    /\ ampPc = "idle"
    /\ ampPc' = "iterating"
    /\ ampResults' = <<>>
    /\ ampConsumed' = 0
    /\ UNCHANGED ampBatches

AmpStart ==
    /\ AmpCall
    /\ UNCHANGED <<upVars, reqVars, streamVars, procVars, loopVars>>

\* The next batch arrives: it is pushed whole, then the limit is looked at.
AmpBatch ==
    /\ ampPc = "iterating"
    /\ ampConsumed < Len(ampBatches)
    /\ LET results == ampResults \o BatchRows(ampConsumed + 1)
       IN  /\ ampResults' = results
           /\ ampConsumed' = ampConsumed + 1
           /\ ampPc' = IF OverLimit(results) THEN "returned" ELSE "iterating"
    /\ UNCHANGED <<upVars, reqVars, streamVars, ampBatches, procVars, loopVars>>

\* The engine's answer ends.
AmpEnd ==
    /\ ampPc = "iterating"
    /\ ampConsumed = Len(ampBatches)
    /\ ampPc' = "returned"
    /\ UNCHANGED <<upVars, reqVars, streamVars, ampBatches, ampConsumed, ampResults,
                   procVars, loopVars>>

\* The engine's answer breaks off: `AMP query failed` is thrown.
AmpError ==
    /\ ampPc = "iterating"
    /\ ampPc' = "failed"
    /\ UNCHANGED <<upVars, reqVars, streamVars, ampBatches, ampConsumed, ampResults,
                   procVars, loopVars>>

(***************************************************************************)
(* POST /api/processed-data.                                               *)
(***************************************************************************)
QueryRequiredResponse ==
    [status |-> 400, kind |-> "json",
     error |-> "query is required (natural language description)", message |-> ""]

AmpUnavailableResponse ==
    [status |-> 503, kind |-> "json", error |-> "AMP service not configured",
     message |-> "Please set AMP_QUERY_TOKEN in environment variables"]

OpenAIUnavailableResponse ==
    [status |-> 503, kind |-> "json", error |-> "OpenAI service not configured",
     message |-> "Please set OPENAI_API_KEY in environment variables"]

\* The catch of POST /api/processed-data.
ProcessedErrorResponse(message) ==
    [status |-> 500, kind |-> "json", error |-> "Failed to process query",
     message |-> message]

ProcessedResponse(results) ==
    [status |-> 200, kind |-> "json", error |-> "", message |-> "",
     row_count |-> Len(results), data |-> results]

\* `if (!ampClient)`, `if (!openaiClient)`: the response for the first client
\* missing, if one is.
MissingClientNever == <<>>

MissingClient ==
    IF ~ampClient THEN <<AmpUnavailableResponse>>
    ELSE IF ~openaiClient THEN <<OpenAIUnavailableResponse>>
    ELSE <<>>

\* The request arrives.  The handler runs to its first response or to its
\* first await, the pool lookup of getPoolFromToken.
HandleProcessed ==
    /\ reqPc = "start"
    /\ endpoint = "processed-data"
    /\ \/ /\ Falsy(tokenAddress)
          /\ responses' = Append(responses, BadRequestResponse)
          /\ reqPc' = "responded"
          /\ UNCHANGED resolveRequests
       \/ /\ ~Falsy(tokenAddress)
          /\ Falsy(userQuery)
          /\ responses' = Append(responses, QueryRequiredResponse)
          /\ reqPc' = "responded"
          /\ UNCHANGED resolveRequests
       \/ /\ ~Falsy(tokenAddress)
          /\ ~Falsy(userQuery)
          /\ MissingClient # <<>>
          /\ responses' = Append(responses, MissingClient[1])
          /\ reqPc' = "responded"
          /\ UNCHANGED resolveRequests
       \/ /\ ~Falsy(tokenAddress)
          /\ ~Falsy(userQuery)
          /\ MissingClient = <<>>
          /\ resolveRequests' = Append(resolveRequests, toLowerCase(tokenAddress.text))
          /\ reqPc' = "resolving"
          /\ UNCHANGED responses
    /\ UNCHANGED <<upVars, tokenAddress, archive, days, daysNum, minTimestamp, poolInfo, joined,
                   streamVars, ampVars, procVars, loopVars>>

\* The query the completion service writes for the pool.
GeneratedSQL(poolAddress) == "SELECT"

\* The lookup's response arrives: getPoolFromToken throws, or
\* generateSQLWithLLM asks the completion service, or throws without a client.
ProcessedResolveRecv ==
    /\ reqPc = "resolving"
    /\ endpoint = "processed-data"
    /\ received' = [received EXCEPT !["lookup"] = Append(@, Answered(<<LookupToken>>))]
    /\ LET token == executeGraphQLQuery(Answered(<<LookupToken>>)).data[1]
       IN  \/ /\ ~token.known
              /\ responses' = Append(responses, ProcessedErrorResponse("Token not found in subgraph"))
              /\ reqPc' = "responded"
              /\ UNCHANGED <<poolInfo, llmRequests>>
           \/ /\ token.known
              /\ Len(token.whitelistPools) = 0
              /\ responses' = Append(responses, ProcessedErrorResponse("No pools found for token"))
              /\ reqPc' = "responded"
              /\ UNCHANGED <<poolInfo, llmRequests>>
           \/ /\ token.known
              /\ Len(token.whitelistPools) # 0
              /\ ~openaiClient
              /\ poolInfo' = PoolInfo(token)
              /\ responses' = Append(responses,
                     ProcessedErrorResponse("OpenAI client not initialized"))
              /\ reqPc' = "responded"
              /\ UNCHANGED llmRequests
           \/ /\ token.known
              /\ Len(token.whitelistPools) # 0
              /\ openaiClient
              /\ poolInfo' = PoolInfo(token)
              /\ llmRequests' = Append(llmRequests, toLowerCase(PoolInfo(token).poolAddress))
              /\ reqPc' = "generating"
              /\ UNCHANGED responses
    /\ UNCHANGED <<upVars, tokenAddress, archive, days, daysNum, minTimestamp, resolveRequests, joined,
                   fetchVars, ampVars, endpoint, ampClient, openaiClient, userQuery,
                   ampQueries, loopVars>>

\* executeGraphQLQuery throws for the lookup.
ProcessedResolveError(kind) ==
    /\ reqPc = "resolving"
    /\ endpoint = "processed-data"
    /\ LET response == Failure(kind, <<LookupToken>>)
           outcome == executeGraphQLQuery(response)
       IN  /\ outcome.threw
           /\ received' = [received EXCEPT !["lookup"] = Append(@, response)]
           /\ responses' = Append(responses, ProcessedErrorResponse(outcome.message))
    /\ reqPc' = "responded"
    /\ UNCHANGED <<upVars, tokenAddress, archive, days, daysNum, minTimestamp, poolInfo,
                   resolveRequests, joined, fetchVars, ampVars, procVars, loopVars>>

\* The completion arrives: executeAMPQuery hands it to the engine, or throws
\* without a client.
LlmRecv ==
    /\ reqPc = "generating"
    /\ received' = [received EXCEPT !["completion"] =
                        Append(@, Answered(<<GeneratedSQL(poolInfo.poolAddress)>>))]
    /\ \/ /\ ~ampClient
          /\ responses' = Append(responses, ProcessedErrorResponse("AMP client not initialized"))
          /\ reqPc' = "responded"
          /\ UNCHANGED <<ampQueries, ampVars>>
       \/ /\ ampClient
          /\ ampQueries' = Append(ampQueries, GeneratedSQL(poolInfo.poolAddress))
          /\ AmpCall
          /\ reqPc' = "querying"
          /\ UNCHANGED responses
    /\ UNCHANGED <<upVars, tokenAddress, archive, days, daysNum, minTimestamp, poolInfo,
                   resolveRequests, joined, fetchVars, endpoint, ampClient,
                   openaiClient, userQuery, llmRequests, loopVars>>

\* The mutant that runs a query of its own when no completion came.
LlmErrorFallback ==
    /\ reqPc = "generating"
    /\ received' = [received EXCEPT !["completion"] = Append(@, Failure("transport", <<>>))]
    /\ ampQueries' = Append(ampQueries, "SELECT")
    /\ AmpCall
    /\ reqPc' = "querying"
    /\ UNCHANGED <<upVars, tokenAddress, archive, days, daysNum, minTimestamp, poolInfo,
                   resolveRequests, joined, responses, fetchVars, endpoint, ampClient,
                   openaiClient, userQuery, llmRequests, loopVars>>

\* The completion fails: generateSQLWithLLM rethrows.
LlmError ==
    /\ reqPc = "generating"
    /\ received' = [received EXCEPT !["completion"] = Append(@, Failure("transport", <<>>))]
    /\ responses' = Append(responses, ProcessedErrorResponse("Failed to generate SQL query"))
    /\ reqPc' = "responded"
    /\ UNCHANGED <<upVars, tokenAddress, archive, days, daysNum, minTimestamp, poolInfo,
                   resolveRequests, joined, fetchVars, ampVars, procVars, loopVars>>

\* executeAMPQuery has returned or thrown: the handler answers.
ProcessedRespond ==
    /\ reqPc = "querying"
    /\ \/ /\ ampPc = "returned"
          /\ responses' = Append(responses, ProcessedResponse(ampResults))
       \/ /\ ampPc = "failed"
          /\ responses' = Append(responses, ProcessedErrorResponse("AMP query failed"))
    /\ reqPc' = "responded"
    /\ UNCHANGED <<upVars, tokenAddress, archive, days, daysNum, minTimestamp, poolInfo,
                   resolveRequests, joined, streamVars, ampVars, procVars, loopVars>>

(***************************************************************************)
(* The aggregation runs: one request against a static upstream, with an    *)
(* archive that does not fail.                                             *)
(***************************************************************************)
\* n records at the timestamps from, from + 1, ...
Run(from, n) == [i \in 1..n |-> from + i - 1]

DayAgo == NowSeconds - DaySeconds
MonthAgo == NowSeconds - maxDays * DaySeconds

\* Nothing happened in the window, with 3 positions and 5 ticks.
QuietPool ==
    [c \in Collections |->
        IF c = "positions" THEN Run(MonthAgo, 3)
        ELSE IF c = "ticks" THEN Run(MonthAgo, 5)
        ELSE <<>>]

\* More than a page of swaps in the last day and one before it, a burn
\* before a mint, a collect, and more positions than one query returns.
BusyPool ==
    [c \in Collections |->
        IF c = "swaps" THEN <<MonthAgo>> \o Run(DayAgo + 1, PageSize + 1)
        ELSE IF c = "mints" THEN <<DayAgo + 100>>
        ELSE IF c = "burns" THEN <<DayAgo + 50>>
        ELSE IF c = "collects" THEN <<DayAgo + 60>>
        ELSE IF c = "positions" THEN Run(MonthAgo, BulkFirst + 1)
        ELSE Run(MonthAgo, 1)]

AggUpstreams == {QuietPool, BusyPool}

AggTokens ==
    { NoToken,
      Token("0xabc", <<>>),
      Token("0xabc", <<Pool("0xpoolA", 5), Pool("0xpoolB", 9)>>) }

AggTokenAddresses == {Absent, Param(""), Param("0xabc")}

AggDays == {Absent, Param(<<"3", "0">>), Param(<<"0">>), Param(<<"3", "1">>)}

InitRequest ==
    /\ reqPc = "start"
    /\ archive = "none"
    /\ daysNum = NaN
    /\ minTimestamp = 0
    /\ poolInfo = NoPoolInfo
    /\ resolveRequests = <<>>
    /\ joined = "pending"
    /\ responses = <<>>

\* A request of GET /api/pool-data.
InitPoolData ==
    /\ upstream \in AggUpstreams
    /\ upToken \in AggTokens
    /\ upDetail = PlainDetail
    /\ tokenAddress \in AggTokenAddresses
    /\ days \in AggDays
    /\ InitRequest
    /\ IdleStreams
    /\ IdleAmp
    /\ IdleProc("pool-data")
    /\ IdleLoop

\* The answers of the analytics engine in a processed-data run: none, one
\* within the limit, one that crosses it.
AggBatches == {<<>>, <<1, 1>>, <<1, ampMaxRows, 1>>}

\* A request of POST /api/processed-data, with or without each client.
InitProcessed ==
    /\ upstream = QuietPool
    /\ upToken \in AggTokens
    /\ upDetail = PlainDetail
    /\ tokenAddress \in AggTokenAddresses
    /\ days = Absent
    /\ InitRequest
    /\ IdleStreams
    /\ ampBatches \in AggBatches
    /\ ampConsumed = 0
    /\ ampResults = <<>>
    /\ ampPc = "idle"
    /\ endpoint = "processed-data"
    /\ ampClient \in BOOLEAN
    /\ openaiClient \in BOOLEAN
    /\ userQuery \in {Absent, Param("daily volume")}
    /\ llmRequests = <<>>
    /\ ampQueries = <<>>
    /\ IdleLoop

Init == InitPoolData \/ InitProcessed

\* How the endpoint lets a stream of an aggregation down: with `errors` next
\* to the data.  (A single stream run meets every kind of failure.)
AggFailures == {"partial"}

Next ==
    \/ HandleRequest
    \/ ResolveRecv
    \/ \E kind \in UpstreamFailures : ResolveError(kind)
    \/ \E s \in Streams :
           \/ RecvPage(s)
           \/ RecvBulk(s)
           \/ \E kind \in AggFailures : RecvError(s, kind)
    \/ HandleProcessed
    \/ ProcessedResolveRecv
    \/ \E kind \in UpstreamFailures : ProcessedResolveError(kind)
    \/ LlmRecv
    \/ LlmError
    \/ AmpBatch
    \/ AmpEnd
    \/ AmpError
    \/ ProcessedRespond
    \/ ArchiveEnd

Spec == Init /\ [][Next]_vars

(***************************************************************************)
(* Two requests at once.  Every invocation of the handler has its own      *)
(* tokenAddress, days, daysNum, poolInfo, minTimestamp and Promise.all,    *)
(* and every call of a fetcher its own cursor and accumulator: they are    *)
(* the variables above for the request whose continuation runs, and are    *)
(* parked for the other.  Between two continuations the event loop may     *)
(* turn to either request.                                                 *)
(***************************************************************************)
PairRequests == {1, 2}

\* The locals of the request running now.
Locals ==
    [tokenAddress |-> tokenAddress, days |-> days, reqPc |-> reqPc,
     daysNum |-> daysNum, minTimestamp |-> minTimestamp, poolInfo |-> poolInfo,
     resolveRequests |-> resolveRequests, joined |-> joined, responses |-> responses,
     archive |-> archive,
     pc |-> pc, lastTimestamp |-> lastTimestamp, acc |-> acc, requests |-> requests,
     pages |-> pages, late |-> late, received |-> received]

\* The locals of a request that has just arrived.
Arrived(address, d) ==
    [tokenAddress |-> address, days |-> d, reqPc |-> "start",
     daysNum |-> NaN, minTimestamp |-> 0, poolInfo |-> NoPoolInfo,
     resolveRequests |-> <<>>, joined |-> "pending", responses |-> <<>>,
     archive |-> "none",
     pc |-> [s \in Streams |-> "idle"], lastTimestamp |-> [s \in Streams |-> 0],
     acc |-> [s \in Streams |-> <<>>], requests |-> [s \in Streams |-> <<>>],
     pages |-> [s \in Streams |-> <<>>], late |-> {},
     received |-> [c \in Calls |-> <<>>]]

\* The mutant in which the accumulators are not the call's own but the
\* module's: the other request finds them as this one left them.
LocalsOfSharedAccumulators(r) == [parked[r] EXCEPT !.acc = acc]

\* The locals request r left behind when it last awaited.
LocalsOf(r) == parked[r]

\* The event loop turns to request r.
Switch(r) ==
    /\ r \in DOMAIN parked
    /\ current' = r
    /\ parked' = [q \in (DOMAIN parked \ {r}) \cup {current} |->
                      IF q = current THEN Locals ELSE parked[q]]
    /\ tokenAddress' = LocalsOf(r).tokenAddress
    /\ days' = LocalsOf(r).days
    /\ reqPc' = LocalsOf(r).reqPc
    /\ daysNum' = LocalsOf(r).daysNum
    /\ minTimestamp' = LocalsOf(r).minTimestamp
    /\ poolInfo' = LocalsOf(r).poolInfo
    /\ resolveRequests' = LocalsOf(r).resolveRequests
    /\ joined' = LocalsOf(r).joined
    /\ responses' = LocalsOf(r).responses
    /\ archive' = LocalsOf(r).archive
    /\ pc' = LocalsOf(r).pc
    /\ lastTimestamp' = LocalsOf(r).lastTimestamp
    /\ acc' = LocalsOf(r).acc
    /\ requests' = LocalsOf(r).requests
    /\ pages' = LocalsOf(r).pages
    /\ late' = LocalsOf(r).late
    /\ received' = LocalsOf(r).received
    /\ UNCHANGED <<upVars, ampVars, procVars>>

\* A swap before the last day and one in it, a mint, a position: nothing
\* shares a timestamp.
SharedPool ==
    [c \in Collections |->
        IF c = "swaps" THEN <<MonthAgo, DayAgo + 1>>
        ELSE IF c = "mints" THEN <<DayAgo + 100>>
        ELSE IF c = "positions" THEN <<MonthAgo>>
        ELSE <<>>]

\* The windows the two requests ask for.
PairDays == <<Absent, Param(<<"3", "0">>)>>

InitPair ==
    /\ upstream = SharedPool
    /\ upToken = Token("0xabc", <<Pool("0xpoolA", 5), Pool("0xpoolB", 9)>>)
    /\ upDetail = PlainDetail
    /\ tokenAddress = Param("0xabc")
    /\ days = PairDays[1]
    /\ InitRequest
    /\ IdleStreams
    /\ IdleAmp
    /\ IdleProc("pool-data")
    /\ current = 1
    /\ parked = [r \in {2} |-> Arrived(Param("0xabc"), PairDays[2])]

NextPair ==
    \/ HandleRequest
    \/ ResolveRecv
    \/ \E s \in Streams :
           \/ RecvPage(s)
           \/ RecvBulk(s)
    \/ \E r \in PairRequests : Switch(r)
    \/ ArchiveEnd

SpecPair == InitPair /\ [][NextPair]_vars

(***************************************************************************)
(* The route runs: one request of GET /api/pool-data or of                 *)
(* GET /api/recent-swaps, with or without its tokenAddress.                *)
(***************************************************************************)
\* Swaps of the last ten minutes, more than a page, and one before them.
RecentPool ==
    [c \in Collections |->
        IF c = "swaps" THEN <<DayAgo>> \o Run(NowSeconds - PageSize - 1, PageSize + 1)
        ELSE <<>>]

InitRoutes ==
    /\ upstream \in {QuietPool, RecentPool}
    /\ upToken \in AggTokens
    /\ upDetail = PlainDetail
    /\ tokenAddress \in AggTokenAddresses
    /\ days \in {Absent, Param(<<"0">>)}
    /\ InitRequest
    /\ IdleStreams
    /\ IdleAmp
    /\ endpoint \in {"pool-data", "recent-swaps"}
    /\ ampClient = TRUE
    /\ openaiClient = TRUE
    /\ userQuery = Absent
    /\ llmRequests = <<>>
    /\ ampQueries = <<>>
    /\ IdleLoop

NextRoutes ==
    \/ HandleRequest
    \/ ResolveRecv
    \/ \E kind \in UpstreamFailures : ResolveError(kind)
    \/ HandleRecent
    \/ RecentResolveRecv
    \/ \E kind \in UpstreamFailures : RecentResolveError(kind)
    \/ \E s \in Streams :
           \/ RecvPage(s)
           \/ RecvBulk(s)
           \/ \E kind \in AggFailures : RecvError(s, kind)
    \/ ArchiveEnd

SpecRoutes == InitRoutes /\ [][NextRoutes]_vars

(***************************************************************************)
(* Swap runs: one request of GET /api/recent-swaps or of                   *)
(* GET /api/latest-swaps, for a pool without swaps or for one with more    *)
(* than a page of swaps in the last seconds, with or without one a minute  *)
(* old.                                                                    *)
(***************************************************************************)
LatestPool ==
    [c \in Collections |->
        IF c = "swaps"
        THEN <<DayAgo, NowSeconds - 60>> \o Run(NowSeconds - PageSize - 1, PageSize + 1)
        ELSE <<>>]

InitSwapRoutes ==
    /\ upstream \in {QuietPool, RecentPool, LatestPool}
    /\ upToken \in AggTokens
    /\ upDetail = PlainDetail
    /\ tokenAddress \in AggTokenAddresses
    /\ days = Absent
    /\ InitRequest
    /\ IdleStreams
    /\ IdleAmp
    /\ endpoint \in {"recent-swaps", "latest-swaps"}
    /\ ampClient = TRUE
    /\ openaiClient = TRUE
    /\ userQuery = Absent
    /\ llmRequests = <<>>
    /\ ampQueries = <<>>
    /\ IdleLoop

NextSwapRoutes ==
    \/ HandleRecent
    \/ RecentResolveRecv
    \/ \E kind \in UpstreamFailures : RecentResolveError(kind)
    \/ HandleLatest
    \/ LatestResolveRecv
    \/ \E kind \in UpstreamFailures : LatestResolveError(kind)
    \/ RecvPage("swaps")
    \/ \E kind \in UpstreamFailures : RecvError("swaps", kind)

SpecSwapRoutes == InitSwapRoutes /\ [][NextSwapRoutes]_vars

(***************************************************************************)
(* Table runs: one request of one of the six table routes, against a pool  *)
(* with records of every kind in its window.                               *)
(***************************************************************************)
InitTables ==
    /\ upstream = BusyPool
    /\ upToken \in {NoToken, Token("0xabc", <<Pool("0xpoolA", 5)>>)}
    /\ upDetail = PlainDetail
    /\ tokenAddress \in {Absent, Param("0xabc")}
    /\ days \in {Absent, Param(<<"0">>)}
    /\ InitRequest
    /\ IdleStreams
    /\ IdleAmp
    /\ endpoint \in TableRoutes
    /\ ampClient = TRUE
    /\ openaiClient = TRUE
    /\ userQuery = Absent
    /\ llmRequests = <<>>
    /\ ampQueries = <<>>
    /\ IdleLoop

NextTables ==
    \/ HandleTable
    \/ TableResolveRecv
    \/ \E kind \in UpstreamFailures : TableResolveError(kind)
    \/ \E s \in Streams :
           \/ RecvPage(s)
           \/ RecvBulk(s)
           \/ \E kind \in AggFailures : RecvError(s, kind)

SpecTables == InitTables /\ [][NextTables]_vars

(***************************************************************************)
(* The live runs: one request for the bundle while the index goes on       *)
(* indexing the pool's swaps, and with an archive that may fail.           *)
(***************************************************************************)
\* The swaps the index gains during a run.
MaxNewSwaps == 1

\* The swaps the pool had when the request arrived.
SwapsAtArrival(u) == IF u = QuietPool THEN 0 ELSE Len(BusyPool["swaps"])

\* The index gains a swap of the pool, of the block of this moment.
NewSwap ==
    /\ \E u \in AggUpstreams :
           /\ \A c \in Collections \ {"swaps"} : upstream[c] = u[c]
           /\ Len(upstream["swaps"]) < SwapsAtArrival(u) + MaxNewSwaps
    /\ upstream' = [upstream EXCEPT !["swaps"] = Append(@, NowSeconds)]
    /\ UNCHANGED <<upToken, upDetail, reqVars, streamVars, ampVars, procVars, loopVars>>

InitLive ==
    /\ upstream \in AggUpstreams
    /\ upToken = Token("0xabc", <<Pool("0xpoolA", 5), Pool("0xpoolB", 9)>>)
    /\ upDetail = PlainDetail
    /\ tokenAddress = Param("0xabc")
    /\ days = Absent
    /\ InitRequest
    /\ IdleStreams
    /\ IdleAmp
    /\ IdleProc("pool-data")
    /\ IdleLoop

NextLive ==
    \/ HandleRequest
    \/ ResolveRecv
    \/ \E s \in Streams :
           \/ RecvPage(s)
           \/ RecvBulk(s)
    \/ NewSwap
    \/ ArchiveEnd
    \/ ArchiveError
    \/ ArchiveCatch

SpecLive == InitLive /\ [][NextLive]_vars

(***************************************************************************)
(* The normalizer runs: the six tables are made of lists of records as     *)
(* the fetchers return them, in ascending order of timestamp, here all the *)
(* records the endpoint holds.                                             *)
(***************************************************************************)
\* The mints and the burns are at most MaxMerge each, at the timestamps
\* 0, MergeStep, ..., MaxMergeTime * MergeStep; the other lists have at most
\* MaxOthers records each.
MaxMerge == 3
MaxMergeTime == 2
MergeStep == 50
MaxOthers == 2

Scaled(u) == [i \in 1..Len(u) |-> u[i] * MergeStep]

InitNormalize ==
    /\ \E m \in SortedSeqs(MaxMerge, MaxMergeTime), b \in SortedSeqs(MaxMerge, MaxMergeTime),
          n \in 0..MaxOthers :
           upstream = [c \in Collections |->
                          IF c = "mints" THEN Scaled(m)
                          ELSE IF c = "burns" THEN Scaled(b)
                          ELSE Run(0, n)]
    /\ upToken = NoToken
    /\ upDetail = PlainDetail
    /\ tokenAddress = Absent
    /\ days = Absent
    /\ reqPc = "direct"
    /\ archive = "none"
    /\ daysNum = NaN
    /\ minTimestamp = 0
    /\ poolInfo = NoPoolInfo
    /\ resolveRequests = <<>>
    /\ joined = "pending"
    /\ responses = <<>>
    /\ IdleStreams
    /\ IdleAmp
    /\ IdleProc("direct")
    /\ IdleLoop

\* The data of the tables: for each stream the records held for it.
Data == [s \in Streams |-> AllRecords(CollectionOf(s))]

\* The six tables are made and appended to the archive.
WriteBundle ==
    /\ reqPc = "direct"
    /\ responses' = Append(responses, ZipResponse(Data))
    /\ reqPc' = "responded"
    /\ archive' = "finalizing"
    /\ UNCHANGED <<upVars, tokenAddress, days, daysNum, minTimestamp, poolInfo,
                   resolveRequests, joined, streamVars, ampVars, procVars, loopVars>>

NextNormalize == WriteBundle

SpecNormalize == InitNormalize /\ [][NextNormalize]_vars

(***************************************************************************)
(* The derived-field runs: the tables are made of a swap, a mint and a     *)
(* burn, for each tick range and each gas the index may hold for them.     *)
(***************************************************************************)
\* The ticks range over -MaxTick..MaxTick.
MaxTick == 2

\* The gas a transaction used and its price: untold, nothing, a small
\* amount, and the amounts of the documented example.
GasUsedSamples == {Null, Field(0), Field(21), Field(100000)}
GasPriceSamples == {Null, Field(0), Field(30), Field(2000000000)}

DerivePool ==
    [c \in Collections |->
        IF c = "swaps" THEN <<0>>
        ELSE IF c = "mints" THEN <<0>>
        ELSE IF c = "burns" THEN <<1>>
        ELSE <<>>]

InitDerive ==
    /\ upstream = DerivePool
    /\ upToken = NoToken
    /\ upDetail \in [tickLower : (0 - MaxTick)..MaxTick, tickUpper : (0 - MaxTick)..MaxTick,
                     gasUsed : GasUsedSamples, gasPrice : GasPriceSamples]
    /\ tokenAddress = Absent
    /\ days = Absent
    /\ reqPc = "direct"
    /\ archive = "none"
    /\ daysNum = NaN
    /\ minTimestamp = 0
    /\ poolInfo = NoPoolInfo
    /\ resolveRequests = <<>>
    /\ joined = "pending"
    /\ responses = <<>>
    /\ IdleStreams
    /\ IdleAmp
    /\ IdleProc("direct")
    /\ IdleLoop

NextDerive == WriteBundle

SpecDerive == InitDerive /\ [][NextDerive]_vars

(***************************************************************************)
(* The validation runs: one request for each `days` text over a small      *)
(* alphabet, up to the handler's first response or await.                  *)
(***************************************************************************)
DaysAlphabet == {"0", "1", "3", "5", ".", "a", "-"}

Texts(alphabet, maxLen) == UNION {[1..n -> alphabet] : n \in 0..maxLen}

InitValidate ==
    /\ upstream = QuietPool
    /\ upToken = Token("0xabc", <<Pool("0xpoolA", 5)>>)
    /\ upDetail = PlainDetail
    /\ tokenAddress \in {Absent, Param("0xabc"), Param("0xABC")}
    /\ days \in {Absent} \cup {Param(text) : text \in Texts(DaysAlphabet, MaxDaysLen)}
    /\ InitRequest
    /\ IdleStreams
    /\ IdleAmp
    /\ IdleProc("pool-data")
    /\ IdleLoop

NextValidate == HandleRequest

SpecValidate == InitValidate /\ [][NextValidate]_vars

(***************************************************************************)
(* The analytics runs: executeAMPQuery called directly, for each answer    *)
(* of the engine.                                                          *)
(***************************************************************************)
InitAmp ==
    /\ upstream = QuietPool
    /\ upToken = NoToken
    /\ upDetail = PlainDetail
    /\ tokenAddress = Absent
    /\ days = Absent
    /\ InitRequest
    /\ IdleStreams
    /\ ampBatches \in UNION {[1..n -> 0..MaxBatchRows] : n \in 0..MaxBatches}
    /\ ampConsumed = 0
    /\ ampResults = <<>>
    /\ ampPc = "idle"
    /\ IdleProc("direct")
    /\ IdleLoop

NextAmp == AmpStart \/ AmpBatch \/ AmpEnd \/ AmpError

SpecAmp == InitAmp /\ [][NextAmp]_vars

(***************************************************************************)
(* Properties of a single stream run.                                      *)
(***************************************************************************)
\* The records of stream s's collection inside the window, as the endpoint
\* would serve them in one unbounded ascending page.
Window(s) ==
    LET c == CollectionOf(s)
    IN  Take(c, FirstAtOrAfter(c, minTimestamp), Len(upstream[c]))

Ts(r) == parseInt(r.timestamp).val

CeilDiv(n, p) == (n + p - 1) \div p

\* The timestamps at which a full page of the run ended.
BoundaryTimes(s) ==
    {Ts(Last(pages[s][k])) : k \in {j \in 1..Len(pages[s]) : Len(pages[s][j]) = PageSize}}

\* No more than PageSize records of the window share a boundary timestamp.
AtMostPageSizeShare(s) ==
    \A t \in BoundaryTimes(s) :
        Cardinality({i \in 1..Len(Window(s)) : Ts(Window(s)[i]) = t}) <= PageSize

\* No two records with the same timestamp sit on the two sides of a multiple
\* of PageSize in the window.
NoBoundaryTie(s) ==
    \A k \in 1..(Len(Window(s)) - 1) :
        k % PageSize = 0 => Ts(Window(s)[k]) # Ts(Window(s)[k + 1])

C2_Original ==
    \A s \in Paginated :
        pc[s] = "done" => Len(requests[s]) = CeilDiv(Len(Window(s)), PageSize)

\* C2 amended: a finished paginator over N window records, none of them
\* dropped at a page boundary, has issued exactly floor(N / PageSize) + 1
\* requests: ceil(N / PageSize) when N is no multiple of PageSize, and one
\* more (the request answered by the empty page) when N is 0 or a multiple.
C2_RequestCount ==
    \A s \in Paginated :
        (pc[s] = "done" /\ NoBoundaryTie(s)) =>
            /\ Len(requests[s]) = (Len(Window(s)) \div PageSize) + 1
            /\ Len(Window(s)) % PageSize # 0 =>
                   Len(requests[s]) = CeilDiv(Len(Window(s)), PageSize)

C2_Witness ==
    \E s \in Paginated :
        /\ pc[s] = "done"
        /\ NoBoundaryTie(s)
        /\ Len(Window(s)) = PageSize
        /\ Len(requests[s]) = 2

MaxTs(page) == CHOOSE t \in {Ts(page[i]) : i \in 1..Len(page)} :
                   \A i \in 1..Len(page) : Ts(page[i]) <= t

\* C3: in every paginated stream, collects included, each request after the
\* first carries a cursor strictly greater than the greatest timestamp of the
\* page received before it, and than the cursor of the request before it.
C3_CursorMonotone ==
    \A s \in Paginated :
        \A k \in 2..Len(requests[s]) :
            /\ requests[s][k] > MaxTs(pages[s][k - 1])
            /\ requests[s][k] > requests[s][k - 1]

C3_Witness ==
    /\ Len(requests["collects"]) >= 3
    /\ pc["collects"] = "done"

\* The records left behind a full page that ended at their own timestamp.
Dropped(s) ==
    LET c == CollectionOf(s)
    IN  {i \in 1..Len(upstream[c]) :
            \E k \in 1..Len(pages[s]) :
                /\ Len(pages[s][k]) = PageSize
                /\ i > Last(pages[s][k]).id
                /\ upstream[c][i] = Ts(Last(pages[s][k]))}

\* C4: the records left behind a full page that ended at their timestamp
\* never enter the result, and the run that dropped them ends done, not
\* failed, once its last (short or empty) page has arrived.
C4_BoundaryRecordsSkipped ==
    \A s \in Paginated :
        /\ \A j \in 1..Len(acc[s]) : acc[s][j].id \notin Dropped(s)
        /\ (Dropped(s) # {} /\ Len(Last(pages[s])) < PageSize) => pc[s] = "done"

C4_Witness ==
    \E s \in Paginated :
        /\ Dropped(s) # {}
        /\ pc[s] = "done"
        /\ Len(acc[s]) < Len(Window(s))

(***************************************************************************)
(* Properties of the aggregation.                                          *)
(***************************************************************************)
Responded == responses # <<>>

Answer == responses[1]

\* C5: whenever a stream of the aggregation has failed, the one response of
\* the request is an error and carries no table; a bundle is written only
\* when all seven streams are done, none failed, and then it is the one
\* response.
C5_AllOrNothing ==
    /\ (\E s \in Streams : pc[s] = "failed") =>
           /\ Len(responses) = 1
           /\ Answer.kind = "json"
           /\ Answer.status = 500
    /\ \A i \in 1..Len(responses) :
           responses[i].kind = "zip" =>
               /\ \A s \in Streams : pc[s] = "done"
               /\ Len(responses) = 1
               /\ responses[i].files = Bundle(acc)
    /\ (\A s \in Streams : pc[s] = "done") =>
           (Len(responses) = 1 /\ Answer.kind = "zip")

\* A later page of the snapshot stream fails after swaps and mints are done.
C5_Witness ==
    /\ pc["poolStates"] = "failed"
    /\ Len(pages["poolStates"]) >= 1
    /\ pc["swaps"] = "done"
    /\ pc["mints"] = "done"
    /\ Len(acc["swaps"]) > 0
    /\ Len(responses) = 1

(***************************************************************************)
(* Properties of the validation.                                           *)
(***************************************************************************)
ValidationFailed == Responded /\ Answer.message = DaysMessage

\* A decimal numeral: an optional minus sign, digits, and optionally a point
\* and more digits, with at least one digit.
Numeral(text) ==
    LET u == IF text # <<>> /\ Head(text) = "-" THEN Tail(text) ELSE text
        n == PrefixLen(u, Digits)
        rest == Drop(u, n)
        f == IF rest # <<>> /\ Head(rest) = "." THEN PrefixLen(Tail(rest), Digits) ELSE 0
    IN  [ok |-> /\ n + f > 0
                /\ \/ rest = <<>>
                   \/ (Head(rest) = "." /\ f = Len(rest) - 1),
         negative |-> text # <<>> /\ Head(text) = "-",
         whole |-> DigitsValue(SubSeq(u, 1, n)),
         fraction |-> IF f = 0 THEN 0 ELSE DigitsValue(SubSeq(rest, 2, f + 1))]

\* The window length a `days` parameter states is outside [1, maxDays], or
\* is no number at all.
OutsideWindow(param) ==
    /\ param.present
    /\ LET v == Numeral(param.text)
       IN  \/ ~v.ok
           \/ v.negative
           \/ v.whole < 1
           \/ v.whole > maxDays
           \/ (v.whole = maxDays /\ v.fraction > 0)

\* The parameter is an integer numeral of [1, maxDays], or absent (1 day).
IntegerInside(param) ==
    \/ ~param.present
    \/ LET v == Numeral(param.text)
       IN  /\ v.ok
           /\ ~v.negative
           /\ "." \notin {param.text[i] : i \in 1..Len(param.text)}
           /\ v.whole \in 1..maxDays

\* C6 as stated: once a request with a tokenAddress has been handled, it has
\* failed validation if its days is outside [1, maxDays] or no number, and
\* has not if its days is an integer of [1, maxDays].
C6_Original ==
    (reqPc # "start" /\ ~Falsy(tokenAddress)) =>
        /\ OutsideWindow(days) => ValidationFailed
        /\ IntegerInside(days) => ~ValidationFailed

(***************************************************************************)
(* Properties of the error responses.                                      *)
(***************************************************************************)
UserInputClass(r) == r.status \in 400..499
NotFoundClass(r) == r.status = 404
AggregationFailureClass(r) == r.status \in 500..599

\* C7 as stated: a window length out of range is answered by an error of the
\* user-input class, which is not the class of an upstream failure.
C7_Original ==
    ValidationFailed =>
        /\ UserInputClass(Answer)
        /\ ~AggregationFailureClass(Answer)

\* The pool lookup itself failed upstream (no stream had been called yet).
LookupFailed ==
    /\ Responded
    /\ \A s \in Streams : pc[s] = "idle"
    /\ Answer.message \in {FailureMessage(k) : k \in UpstreamFailures}

\* C8 as stated: when the index answers the lookup with no such token, or
\* with no pool of it, the request is answered by an error of the not-found
\* class; otherwise the descriptor of the pool of highest TVL is resolved.
C8_Original ==
    (reqPc \in {"fetching", "responded"} /\ Len(resolveRequests) = 1 /\ ~LookupFailed) =>
        IF ~upToken.known \/ upToken.pools = <<>>
        THEN Responded /\ Answer.kind = "json" /\ NotFoundClass(Answer)
        ELSE poolInfo.poolAddress = TopByTvl(upToken.pools, 1)[1].id

(***************************************************************************)
(* Properties of the unpaginated fetches.                                  *)
(***************************************************************************)
\* C9 as stated: a finished positions or ticks fetch has issued one request
\* and holds every record of the pool, whatever their number.
C9_Original ==
    \A s \in Bulk :
        pc[s] = "done" =>
            /\ Len(requests[s]) = 1
            /\ acc[s] = AllRecords(CollectionOf(s))

(***************************************************************************)
(* Properties of the analytics executor.                                   *)
(***************************************************************************)
RECURSIVE RowsBefore(_)
RowsBefore(k) == IF k = 0 THEN 0 ELSE RowsBefore(k - 1) + ampBatches[k]

\* C10 as stated: executeAMPQuery never holds more than ampMaxRows rows, and
\* takes no batch once ampMaxRows rows are held.
C10_Original ==
    /\ Len(ampResults) <= ampMaxRows
    /\ ampConsumed >= 1 => RowsBefore(ampConsumed - 1) < ampMaxRows

(***************************************************************************)
(* Properties of the processed-data request.                               *)
(***************************************************************************)
\* C11: a processed-data request that finds the analytics client or the AI
\* client missing never issues a pool lookup, a completion or an analytics
\* query; once handled it is over, and if it carried its tokenAddress and
\* its query, its one response is the 503 that names the missing service.
C11_UnavailableBeforeAnyCall ==
    (endpoint = "processed-data" /\ (~ampClient \/ ~openaiClient)) =>
        /\ resolveRequests = <<>>
        /\ llmRequests = <<>>
        /\ ampQueries = <<>>
        /\ ampPc = "idle"
        /\ \A c \in Calls : received[c] = <<>>
        /\ reqPc \in {"start", "responded"}
        /\ (reqPc = "responded" /\ ~Falsy(tokenAddress) /\ ~Falsy(userQuery)) =>
               /\ Len(responses) = 1
               /\ Answer.status = 503
               /\ Answer.error = IF ~ampClient THEN "AMP service not configured"
                                 ELSE "OpenAI service not configured"

C11_Witness ==
    /\ endpoint = "processed-data"
    /\ ampClient
    /\ ~openaiClient
    /\ upToken.known
    /\ upToken.pools # <<>>
    /\ reqPc = "responded"
    /\ Answer.status = 503

(***************************************************************************)
(* Properties of the external calls.                                       *)
(***************************************************************************)
NoDuplicates(seq) == \A i, j \in 1..Len(seq) : i # j => seq[i] # seq[j]

\* Some external call of the request has failed.
SomeCallFailed ==
    \/ \E c \in Calls : \E k \in 1..Len(received[c]) : received[c][k].kind # "ok"
    \/ (endpoint = "processed-data" /\ ampPc = "failed")

Successful(r) == r.status \in 200..299

\* C12: no stream asks for the same cursor twice, and the lookup, the
\* completion and the analytics query are issued at most once; every request
\* got at most one answer from outside; and once a call has failed no
\* response of the request is a success: the response written is one error,
\* written at once when a stream, the lookup or the completion fails.
C12_NoRetry ==
    /\ \A s \in Streams : NoDuplicates(requests[s])
    /\ \A s \in Bulk : Len(requests[s]) <= 1
    /\ \A s \in Streams : Len(received[s]) <= Len(requests[s])
    /\ Len(resolveRequests) <= 1
    /\ Len(received["lookup"]) <= Len(resolveRequests)
    /\ Len(llmRequests) <= 1
    /\ Len(received["completion"]) <= Len(llmRequests)
    /\ Len(ampQueries) <= 1
    /\ SomeCallFailed =>
           /\ \A i \in 1..Len(responses) : ~Successful(responses[i])
           /\ Len(responses) <= 1
           /\ (\E c \in Calls : \E k \in 1..Len(received[c]) : received[c][k].kind # "ok")
                  => (Len(responses) = 1 /\ Answer.status = 500)
           /\ reqPc = "responded" => (Len(responses) = 1 /\ Answer.status = 500)

\* A later page of a stream fails, after the lookup and a first page went
\* well.
C12_Witness ==
    /\ pc["swaps"] = "failed"
    /\ Len(requests["swaps"]) = 2
    /\ Len(received["swaps"]) = 2
    /\ Len(resolveRequests) = 1
    /\ Len(responses) = 1

(***************************************************************************)
(* Properties of the scheduling of the streams.                            *)
(***************************************************************************)
\* The requests of stream s that nothing has come back for yet.
InFlight(s) == Len(requests[s]) - Len(received[s])

\* C13: a paginated stream has at most one request in flight, exactly while
\* it waits; and its request n+1 was issued on the response to request n,
\* with the cursor taken from the last record of page n.
C13_Sequential ==
    \A s \in Paginated :
        /\ InFlight(s) \in {0, 1}
        /\ InFlight(s) = 1 <=> pc[s] = "waiting"
        /\ \A k \in 2..Len(requests[s]) :
               /\ k - 1 <= Len(pages[s])
               /\ requests[s][k] = NextCursor(s, pages[s][k - 1])

C13_Witness ==
    \E s \in Paginated :
        /\ pc[s] = "waiting"
        /\ Len(requests[s]) = 3
        /\ Len(received[s]) = 2

Launched(s) == pc[s] # "idle" /\ requests[s] # <<>>

\* C14: once the pool is resolved all seven streams have issued their first
\* request, before anything has come back for any of them; the Promise.all
\* is resolved exactly when all seven are done, and rejected exactly when
\* one has failed, the response being written at that step and not before.
C14_LaunchedTogetherJoinedAll ==
    /\ (endpoint = "pool-data" /\ reqPc = "fetching") => \A s \in Streams : Launched(s)
    /\ (\E s \in Streams : received[s] # <<>> \/ pc[s] # "idle") =>
           \A t \in Streams : Launched(t)
    /\ joined = "resolved" <=> (\A s \in Streams : pc[s] = "done")
    /\ joined = "rejected" <=> (\E s \in Streams : pc[s] = "failed")
    /\ (reqPc = "fetching") <=> (joined = "pending" /\ \E s \in Streams : pc[s] # "idle")
    /\ reqPc = "fetching" => responses = <<>>
    /\ (joined # "pending") => Len(responses) = 1

\* Two of the streams are through while others still wait for their first
\* page, and in another order: the last stream called is done before the
\* first one has heard anything.
C14_Witness ==
    /\ pc["ticks"] = "done"
    /\ pc["collects"] = "done"
    /\ pc["swaps"] = "waiting"
    /\ received["swaps"] = <<>>
    /\ pc["mints"] = "waiting"
    /\ joined = "pending"

\* C15: after the Promise.all is rejected, every stream still waiting is
\* resumed by its page as any other time; a stream that ends after the
\* rejection ends on a short or an empty page, as its own loop has it, with
\* the records it asked for; and the request keeps its one response, the
\* error, with no record of any stream in it.
C15_SiblingsRunOn ==
    joined = "rejected" =>
        /\ \A s \in Streams : pc[s] = "waiting" => Resumes(s)
        /\ \A s \in Paginated :
               pc[s] = "done" =>
                   /\ Len(Last(pages[s])) < PageSize
                   /\ Len(requests[s]) = Len(pages[s])
                   /\ NoBoundaryTie(s) => acc[s] = Window(s)
        /\ Len(responses) = 1
        /\ Answer.kind = "json"
        /\ Answer.status = 500

\* A stream has failed on its one request, and after that a sibling took a
\* full page, asked for the next and ended with all its records.
C15_Witness ==
    /\ joined = "rejected"
    /\ pc["ticks"] = "failed"
    /\ "swaps" \in late
    /\ pc["swaps"] = "done"
    /\ Len(requests["swaps"]) >= 2
    /\ Len(acc["swaps"]) > PageSize
    /\ \A s \in Streams \ {"ticks"} : pc[s] = "done"

(***************************************************************************)
(* Properties of two requests at once.                                     *)
(***************************************************************************)
\* The locals of request r, running or parked.
LocalsNow(r) == IF r = current THEN Locals ELSE parked[r]

\* What the endpoint holds for stream s of a request with lower bound minTs,
\* as far as one fetch brings it back.
Expected(s, minTs) ==
    LET c == CollectionOf(s)
    IN  IF s \in Paginated THEN Take(c, FirstAtOrAfter(c, minTs), Len(upstream[c]))
        ELSE QueryAll(c)

IsPrefix(a, b) == Len(a) <= Len(b) /\ a = SubSeq(b, 1, Len(a))

\* C16: under every interleaving of two requests, what a request has
\* accumulated for a stream is a prefix of what the endpoint holds for its
\* own window, all of it once the stream is done, and the bundle it writes
\* is the bundle of exactly those records.
C16_NoSharedState ==
    \A r \in PairRequests :
        LET l == LocalsNow(r)
        IN  /\ \A s \in Streams :
                   /\ IsPrefix(l.acc[s], Expected(s, l.minTimestamp))
                   /\ l.pc[s] = "done" => l.acc[s] = Expected(s, l.minTimestamp)
            /\ l.reqPc = "responded" =>
                   /\ Len(l.responses) = 1
                   /\ l.responses[1].kind = "zip"
                   /\ l.responses[1].files =
                          Bundle([s \in Streams |-> Expected(s, l.minTimestamp)])

\* Both requests have written their bundles, of different swaps, after their
\* pages came in turn.
C16_Witness ==
    /\ \A r \in PairRequests : LocalsNow(r).reqPc = "responded"
    /\ Len(LocalsNow(1).acc["swaps"]) = 1
    /\ Len(LocalsNow(2).acc["swaps"]) = 2
    /\ LocalsNow(1).responses[1].files # LocalsNow(2).responses[1].files

\* C17: every request that has passed validation has issued one pool lookup
\* of its own, for its own token, whatever the other request has resolved;
\* and no pool is held for a request before its own lookup was answered.
C17_NeverCached ==
    \A r \in PairRequests :
        LET l == LocalsNow(r)
        IN  /\ l.reqPc # "start" =>
                   l.resolveRequests = <<toLowerCase(l.tokenAddress.text)>>
            /\ l.poolInfo # NoPoolInfo => Len(l.received["lookup"]) = 1
            /\ (\E s \in Streams : l.pc[s] # "idle") => Len(l.received["lookup"]) = 1

\* One request has resolved the token and written its bundle; the other,
\* for the same token, has its own lookup under way.
C17_Witness ==
    /\ current = 2
    /\ LocalsNow(1).reqPc = "responded"
    /\ LocalsNow(1).poolInfo # NoPoolInfo
    /\ tokenAddress = LocalsNow(1).tokenAddress
    /\ reqPc = "resolving"
    /\ resolveRequests = <<"0xabc">>

(***************************************************************************)
(* Properties of the failures of the endpoint.                             *)
(***************************************************************************)
LetDown(r) == r.failed \/ r.errors

RECURSIVE Concat(_)
Concat(ps) == IF ps = <<>> THEN <<>> ELSE Head(ps) \o Concat(Tail(ps))

\* The first time the endpoint let the request down: the lookup, or else the
\* stream that rejected the Promise.all.
LetDownKinds ==
    UNION {{received[c][k].kind : k \in {j \in 1..Len(received[c]) : LetDown(received[c][j])}} :
              c \in Calls \ {"completion"}}

\* C18: a response that is a transport failure, or that carries errors, with
\* or without data, is the last thing its stream receives: the stream has
\* failed, the response counts as no page, none of its data is accumulated,
\* and the error the request is answered with carries the message of
\* executeGraphQLQuery with the endpoint's detail.  The same for the lookup:
\* no pool is resolved from it and no stream is called.
C18_ErrorsNeverAPage ==
    /\ \A s \in Streams :
           \A k \in 1..Len(received[s]) :
               LetDown(received[s][k]) =>
                   /\ pc[s] = "failed"
                   /\ k = Len(received[s])
                   /\ Len(pages[s]) = k - 1
                   /\ Len(requests[s]) = k
                   /\ acc[s] = Concat(pages[s])
                   /\ \A j \in 1..Len(pages[s]) : pages[s][j] = received[s][j].data
    /\ (received["lookup"] # <<>> /\ LetDown(received["lookup"][1])) =>
           /\ poolInfo = NoPoolInfo
           /\ \A s \in Streams : pc[s] = "idle"
           /\ Len(responses) = 1
           /\ Answer.message = FailureMessage(received["lookup"][1].kind)
    /\ LetDownKinds # {} =>
           /\ Len(responses) = 1
           /\ Answer.status = 500
           /\ Answer.message \in {FailureMessage(kind) : kind \in LetDownKinds}
    /\ FailureMessage("transport") # FailureMessage("graphql")

\* After a good page, errors arrive together with the records of the next.
C18_Witness ==
    /\ pc["swaps"] = "failed"
    /\ Len(received["swaps"]) = 2
    /\ received["swaps"][2].kind = "partial"
    /\ received["swaps"][2].data # <<>>
    /\ Len(acc["swaps"]) = PageSize
    /\ Answer.message = FailureMessage("partial")

(***************************************************************************)
(* Properties of the normalizer.                                           *)
(***************************************************************************)
\* The column list of each file of the bundle.
Columns ==
    <<SwapColumns, LPActionColumns, PoolStatsColumns, PositionColumns,
      CollectColumns, TickColumns>>

\* The number of input records of each file of the bundle.
InputCount(data) ==
    <<Len(data["swaps"]), Len(data["mints"]) + Len(data["burns"]),
      Len(data["poolStates"]), Len(data["positions"]), Len(data["collects"]),
      Len(data["ticks"])>>

\* C19: the normalizer always answers with six files; each has the full
\* column list of its table as header and as many rows as its input has
\* records, the mints and the burns together for the liquidity actions; so
\* without records a file is its header and no row.
C19_RowCountIdentity ==
    reqPc = "responded" =>
        /\ Len(responses) = 1
        /\ Answer.kind = "zip"
        /\ Len(Answer.files) = 6
        /\ \A i \in 1..6 :
               /\ Answer.files[i].header = Columns[i]
               /\ Answer.files[i].header # <<>>
               /\ Len(Answer.files[i].rows) = InputCount(Data)[i]
               /\ InputCount(Data)[i] = 0 => Answer.files[i].rows = <<>>

\* Mints and burns, and nothing else.
C19_Witness ==
    /\ reqPc = "responded"
    /\ Len(Data["swaps"]) = 0
    /\ Len(Data["ticks"]) = 0
    /\ Len(Data["mints"]) = 2
    /\ Len(Data["burns"]) = 1
    /\ Len(Answer.files[2].rows) = 3

\* The rows of the liquidity-action file.
Actions == Answer.files[2].rows

\* C20: the liquidity-action file holds every mint as a MINT row and every
\* burn as a BURN row, and nothing else; its rows ascend by timestamp, read
\* as a number; rows of the same timestamp stand mints before burns, and
\* the mints among themselves, and the burns, as they came.
C20_StableMerge ==
    reqPc = "responded" =>
        /\ Len(Actions) = Len(Data["mints"]) + Len(Data["burns"])
        /\ \A i \in 1..Len(Data["mints"]) :
               \E j \in 1..Len(Actions) : Actions[j] = Row("MINT", Data["mints"][i])
        /\ \A i \in 1..Len(Data["burns"]) :
               \E j \in 1..Len(Actions) : Actions[j] = Row("BURN", Data["burns"][i])
        /\ \A i, j \in 1..Len(Actions) :
               i < j =>
                   /\ Actions[i] # Actions[j]
                   /\ parseInt(Actions[i].timestamp).val <= parseInt(Actions[j].timestamp).val
                   /\ parseInt(Actions[i].timestamp).val = parseInt(Actions[j].timestamp).val =>
                          \/ Actions[i].event_type = "MINT" /\ Actions[j].event_type = "BURN"
                          \/ /\ Actions[i].event_type = Actions[j].event_type
                             /\ Actions[i].id < Actions[j].id

\* A burn at 50 and a mint at 100, the burn first; and a mint and a burn
\* together at 100, the mint first.
C20_Witness ==
    /\ reqPc = "responded"
    /\ upstream["mints"] = <<100, 100>>
    /\ upstream["burns"] = <<50, 100>>
    /\ Actions[1].event_type = "BURN"
    /\ Actions[2].event_type = "MINT"
    /\ Actions[3].event_type = "MINT"
    /\ Actions[4].event_type = "BURN"

(***************************************************************************)
(* Properties of the bundle.                                               *)
(***************************************************************************)
\* The names of the files of the archive, in the order they are appended.
BundleNames ==
    <<"swaps.csv", "lp_actions.csv", "pool_stats.csv", "positions.csv",
      "collects.csv", "ticks.csv">>

\* The request named a token of the index that has a pool, asked for one
\* day, and the pool is the quiet one.
QuietDay ==
    /\ endpoint = "pool-data"
    /\ upstream = QuietPool
    /\ ~Falsy(tokenAddress)
    /\ upToken.known
    /\ upToken.pools # <<>>
    /\ ~days.present

C22_Original ==
    \A i \in 1..Len(responses) :
        responses[i].kind = "zip" =>
            Len(responses[i].files[3].rows) = Len(responses[i].files[1].rows)

(***************************************************************************)
(* Properties of the window.                                               *)
(***************************************************************************)
\* C23: once the fetchers of a bundle request are called, the first request
\* of each of the five time-windowed streams carries the lower bound
\* now - daysNum * 86400 seconds, the same for all five, and the one request
\* of the positions fetch and of the ticks fetch carries no time bound.
C23_SharedLowerBound ==
    (endpoint = "pool-data" /\ \E s \in Streams : pc[s] # "idle") =>
        /\ \A s \in Paginated :
               /\ requests[s] # <<>>
               /\ requests[s][1] = NowSeconds - daysNum.val * DaySeconds
               /\ requests[s][1] = minTimestamp
        /\ \A s \in Bulk : requests[s] = <<"unfiltered">>

C23_Witness ==
    /\ endpoint = "pool-data"
    /\ daysNum = Number(maxDays)
    /\ \A s \in Streams : pc[s] = "waiting"
    /\ requests["collects"] = <<MonthAgo>>
    /\ requests["swaps"] = <<MonthAgo>>

C25_TickRange ==
    reqPc = "responded" =>
        /\ Len(Actions) = 2
        /\ \A i \in 1..Len(Actions) :
               /\ Actions[i].tick_range = Number(upDetail.tickUpper - upDetail.tickLower)
               /\ parseInt(Actions[i].tick_lower) = Number(upDetail.tickLower)
               /\ parseInt(Actions[i].tick_upper) = Number(upDetail.tickUpper)

\* Both ticks below zero.
C25_Witness ==
    /\ reqPc = "responded"
    /\ upDetail.tickLower = 0 - MaxTick
    /\ upDetail.tickUpper = -1
    /\ Actions[1].event_type = "MINT"
    /\ Actions[1].tick_range = Number(MaxTick - 1)
    /\ Actions[2].event_type = "BURN"
    /\ Actions[2].tick_range = Number(MaxTick - 1)

\* The number a gas field of the index stands for, nothing when untold.
GasValue(field) == IF field.present THEN DigitsValue(field.text) ELSE 0

\* n without its trailing zeros, and their number.
RECURSIVE Significand(_)
Significand(n) == IF n # 0 /\ n % 10 = 0 THEN Significand(n \div 10) ELSE n

RECURSIVE TrailingZeros(_)
TrailingZeros(n) == IF n # 0 /\ n % 10 = 0 THEN 1 + TrailingZeros(n \div 10) ELSE 0

RECURSIVE PowerOfTen(_)
PowerOfTen(k) == IF k = 0 THEN 1 ELSE 10 * PowerOfTen(k - 1)

\* cost * 1e18 = used * price, with the trailing zeros of used and of price
\* taken from both sides.
IsCostOf(cost, used, price) ==
    /\ ~cost.nan
    /\ IF used = 0 \/ price = 0 THEN cost.m = 0
       ELSE LET k == cost.e + 18 - TrailingZeros(used) - TrailingZeros(price)
            IN  /\ k >= 0
                /\ cost.m * PowerOfTen(k) = Significand(used) * Significand(price)

\* The rows that have a gas cost: the swaps, the mints and the burns.
GasRows == Answer.files[1].rows \o Actions

\* C26: the gas cost of every swap, mint and burn row is the gas used times
\* the gas price over 1e18: 0.0002 for 100000 and 2000000000, and 0 when the
\* transaction tells no gas.
C26_GasCost ==
    reqPc = "responded" =>
        /\ Len(GasRows) = 3
        /\ \A i \in 1..Len(GasRows) :
               /\ IsCostOf(GasRows[i].gas_cost_eth,
                           GasValue(upDetail.gasUsed), GasValue(upDetail.gasPrice))
               /\ (upDetail.gasUsed = Field(100000) /\ upDetail.gasPrice = Field(2000000000)) =>
                      GasRows[i].gas_cost_eth = [nan |-> FALSE, m |-> 2, e |-> -4]
               /\ (upDetail.gasUsed = Null \/ upDetail.gasPrice = Null) =>
                      GasRows[i].gas_cost_eth = [nan |-> FALSE, m |-> 0, e |-> 0]

C26_Witness ==
    /\ reqPc = "responded"
    /\ upDetail.gasUsed = Field(100000)
    /\ upDetail.gasPrice = Field(2000000000)
    /\ \A i \in 1..3 : GasRows[i].gas_cost_eth = [nan |-> FALSE, m |-> 2, e |-> -4]
    /\ {GasRows[i].event_type : i \in 1..3} = {"SWAP", "MINT", "BURN"}

(***************************************************************************)
(* Properties of the paginator's loop.                                     *)
(***************************************************************************)
\* C27: a page of fewer than PageSize records, empty or not, is the last
\* page of its stream: no request follows it and the stream is done; every
\* page of PageSize records is followed by another request; and the result
\* is the pages one after the other, so that an empty page leaves it as it
\* was and a short page is appended.
C27_StopConditions ==
    \A s \in Paginated :
        /\ \A k \in 1..Len(pages[s]) :
               /\ Len(pages[s][k]) < PageSize =>
                      /\ k = Len(pages[s])
                      /\ Len(requests[s]) = k
                      /\ pc[s] = "done"
               /\ Len(pages[s][k]) = PageSize => Len(requests[s]) >= k + 1
        /\ acc[s] = Concat(pages[s])

\* A full page, then the empty page that ends the run.
C27_Witness ==
    \E s \in Paginated :
        /\ pc[s] = "done"
        /\ Len(pages[s]) = 2
        /\ Len(pages[s][1]) = PageSize
        /\ pages[s][2] = <<>>
        /\ Len(requests[s]) = 2
        /\ acc[s] = pages[s][1]

Ascending(records) ==
    \A i \in 1..(Len(records) - 1) : Ts(records[i]) <= Ts(records[i + 1])

\* C28: what a paginator holds ascends by timestamp at every moment, and a
\* step changes it only by appending the page just received to what was
\* held before.
C28_AppendOnly ==
    /\ [](\A s \in Paginated : Ascending(acc[s]))
    /\ [][\A s \in Paginated :
              /\ IsPrefix(acc[s], acc'[s])
              /\ acc'[s] # acc[s] =>
                     /\ Len(pages'[s]) = Len(pages[s]) + 1
                     /\ acc'[s] = acc[s] \o Last(pages'[s])]_vars

\* A run that left a record behind a full page and went on to append a
\* later page.
C28_Witness ==
    \E s \in Paginated :
        /\ Dropped(s) # {}
        /\ pc[s] = "done"
        /\ Len(pages[s]) >= 2
        /\ pages[s][2] # <<>>
        /\ Len(acc[s]) > PageSize

(***************************************************************************)
(* The five paginated fetchers and the one loop they are copies of.        *)
(***************************************************************************)
\* The cursors a loop `fetch until exhausted` asks for from cursor on, over
\* the records of collection c: the cursor, and after a full page the
\* cursors from the last timestamp of the page plus one on.
RECURSIVE GenericCursors(_, _)
GenericCursors(c, cursor) ==
    LET page == QueryPage(c, cursor)
    IN  IF Len(page) < PageSize THEN <<cursor>>
        ELSE <<cursor>> \o GenericCursors(c, Ts(Last(page)) + 1)

\* C29: in a single-stream run the entities hold the same records, and
\* whichever of the five paginated fetchers runs, the cursors it has asked
\* for are those of the generic loop, as far as it has come, and all of them
\* when it is done.
C29_OneGenericLoop ==
    \A s \in Paginated :
        pc[s] # "idle" =>
            /\ IsPrefix(requests[s], GenericCursors("swaps", minTimestamp))
            /\ pc[s] = "done" => requests[s] = GenericCursors("swaps", minTimestamp)
            /\ pc[s] = "waiting" => lastTimestamp[s] = Last(requests[s])

\* fetchCollects through two full pages and a last record.
C29_Witness ==
    /\ pc["collects"] = "done"
    /\ Len(requests["collects"]) = 3
    /\ Len(pages["collects"][3]) = 1
    /\ requests["collects"] = GenericCursors("swaps", minTimestamp)
    /\ upstream["collects"] = upstream["swaps"]

(***************************************************************************)
(* Properties of the response of the bundle route.                         *)
(***************************************************************************)
\* The error responses the handler has set about.
ErrorResponses == {i \in 1..Len(responses) : responses[i].status = 500}

\* C30 as stated: a request for the bundle has never more than one response;
\* once the archive is piped into the response no error response is set
\* about, and never two error responses for one request.
C30_Original ==
    /\ Len(responses) <= 1
    /\ \A i \in 1..Len(responses) :
           responses[i].kind = "zip" =>
               \A j \in (i + 1)..Len(responses) : responses[j].kind # "json"
    /\ Cardinality(ErrorResponses) <= 1


(***************************************************************************)
(* Termination of the paginators.                                          *)
(***************************************************************************)
\* C31: against a static upstream that serves every page asked for, a
\* paginator that has been called comes to its return: it is never left
\* awaiting for ever; and each request it issues as it goes round
\* carries a cursor above the one before, so that it issues no more requests
\* than the upstream holds records at or above its lower bound, and one.
C31_Terminates ==
    /\ (\E s \in Paginated : pc[s] = "waiting")
           ~> (\E s \in Paginated : pc[s] = "done")
    /\ [][\A s \in Paginated :
              Len(requests'[s]) > Len(requests[s]) /\ pc[s] = "waiting" =>
                  /\ lastTimestamp'[s] > lastTimestamp[s]
                  /\ Last(requests'[s]) = lastTimestamp'[s]]_vars
    /\ [](\A s \in Paginated :
              pc[s] # "idle" => Len(requests[s]) <= Len(Window(s)) + 1)

\* A paginator that went round three times and returned at the empty page.
C31_Witness ==
    \E s \in Paginated :
        /\ pc[s] = "done"
        /\ Len(requests[s]) = 4
        /\ Len(pages[s]) = 4
        /\ pages[s][4] = <<>>

(***************************************************************************)
(* No record twice.                                                        *)
(***************************************************************************)
\* The identifiers of the records a paginator holds, in order.
Ids(records) == [j \in 1..Len(records) |-> records[j].id]

\* C32: against a static upstream no record identifier occurs twice in what
\* a paginator holds, at any moment of its run and whatever the number of
\* records that share a timestamp at the end of a page: each record held is
\* one of the upstream's, and they are held in the upstream's order.
C32_NoRecordTwice ==
    \A s \in Paginated :
        /\ NoDuplicates(Ids(acc[s]))
        /\ \A j \in 1..Len(acc[s]) :
               /\ acc[s][j] = WireRecord(CollectionOf(s), acc[s][j].id)
               /\ j > 1 => acc[s][j].id > acc[s][j - 1].id

\* Three records of one timestamp across the end of the first page, and two
\* more pages after it.
C32_Witness ==
    \E s \in Paginated :
        /\ pc[s] = "done"
        /\ Len(pages[s]) = 3
        /\ Ts(pages[s][1][1]) = Ts(Last(pages[s][1]))
        /\ Dropped(s) # {}
        /\ pages[s][3] # <<>>
        /\ Len(acc[s]) < Len(Window(s))

(***************************************************************************)
(* The order of the steps of one aggregation.                              *)
(***************************************************************************)
\* What came back for the pool lookup names no pool: the request failed, or
\* the token is unknown, or it has no pool.
ResolutionFailed ==
    /\ received["lookup"] # <<>>
    /\ LET outcome == executeGraphQLQuery(received["lookup"][1])
       IN  \/ outcome.threw
           \/ ~outcome.data[1].known
           \/ outcome.data[1].whitelistPools = <<>>

\* No request of a stream has been issued, and nothing came back for one.
NoStreamRequest == \A s \in Streams : requests[s] = <<>> /\ received[s] = <<>>

\* C33: in a request for the bundle the window is validated before the pool
\* is looked up, and the pool is looked up before any stream asks for a
\* page: a lookup has been issued only for a valid window; a rejected window
\* leaves no upstream request at all; a stream request has been issued only
\* after the one lookup came back with a pool; and a lookup that failed
\* leaves no stream request.
C33_ValidateResolveFetch ==
    endpoint = "pool-data" =>
        /\ resolveRequests # <<>> =>
               /\ ~Falsy(tokenAddress)
               /\ ~DaysRejected(DaysNum(days))
               /\ daysNum = DaysNum(days)
        /\ DaysRejected(DaysNum(days)) =>
               /\ resolveRequests = <<>>
               /\ received["lookup"] = <<>>
               /\ NoStreamRequest
        /\ ~NoStreamRequest =>
               /\ Len(resolveRequests) = 1
               /\ Len(received["lookup"]) = 1
               /\ ~ResolutionFailed
               /\ poolInfo # NoPoolInfo
               /\ minTimestamp = MinTimestamp(daysNum)
        /\ ResolutionFailed =>
               /\ NoStreamRequest
               /\ Responded
               /\ Answer.status = 500

\* A request with a valid window whose lookup the endpoint let down.
C33_Witness ==
    /\ endpoint = "pool-data"
    /\ days = Param(<<"3", "0">>)
    /\ Len(resolveRequests) = 1
    /\ ResolutionFailed
    /\ executeGraphQLQuery(received["lookup"][1]).threw
    /\ NoStreamRequest
    /\ Responded

(***************************************************************************)
(* The table routes and the aggregation they all run.                      *)
(***************************************************************************)
\* The streams that have thrown.
FailedStreams == {s \in Streams : pc[s] = "failed"}

\* C34: a table route runs the whole aggregation: all seven fetchers are
\* called together; when any of them has thrown, whether or not the table
\* is made of its records, the request has been answered by the route's
\* error response and never by a table; and a table has been sent only when
\* all seven returned, and it is the route's table of what they returned.
C34_TableNeedsAllSeven ==
    endpoint \in TableRoutes =>
        /\ Len(responses) <= 1
        /\ (\E s \in Streams : pc[s] # "idle") => \A s \in Streams : Launched(s)
        /\ FailedStreams # {} =>
               /\ Responded
               /\ Answer.status = 500
               /\ Answer.error = TableFailure(endpoint)
               /\ Answer.message = FailureMessage("partial")
        /\ (Responded /\ Answer.kind = "csv") =>
               /\ \A s \in Streams : pc[s] = "done"
               /\ Answer = TableResponse(endpoint, acc)
        /\ (\A s \in Streams : pc[s] = "done") =>
               /\ Responded
               /\ Answer = TableResponse(endpoint, acc)

\* The request for the table of swaps is answered by an error because the
\* ticks could not be fetched, the swaps having been fetched in full.
C34_Witness ==
    /\ endpoint = "csv/swaps"
    /\ FailedStreams = {"ticks"}
    /\ pc["swaps"] = "done"
    /\ Len(acc["swaps"]) = PageSize + 1
    /\ Responded
    /\ Answer = TableErrorResponse("csv/swaps", FailureMessage("partial"))

(***************************************************************************)
(* The order of the external calls of POST /api/processed-data.            *)
(***************************************************************************)
\* The completion service was asked and gave no completion.
GenerationFailed ==
    /\ received["completion"] # <<>>
    /\ executeGraphQLQuery(received["completion"][1]).threw

\* C35: in a processed-data request each external call is made at most
\* once and only after the one before it succeeded: a completion has been
\* asked for only after the lookup came back with a pool, the analytics
\* engine has been given a query only after the completion came; a failed
\* lookup leaves no completion asked for and no query run, a failed
\* completion no query run; and the success response has been sent only
\* after lookup, completion and analytics run all succeeded.
C35_ResolveGenerateExecute ==
    endpoint = "processed-data" =>
        /\ Len(resolveRequests) <= 1 /\ Len(llmRequests) <= 1 /\ Len(ampQueries) <= 1
        /\ llmRequests # <<>> =>
               /\ Len(received["lookup"]) = 1
               /\ ~ResolutionFailed
               /\ llmRequests = <<toLowerCase(poolInfo.poolAddress)>>
        /\ (ampQueries # <<>> \/ ampPc # "idle") =>
               /\ llmRequests # <<>>
               /\ Len(received["completion"]) = 1
               /\ ~GenerationFailed
               /\ ampQueries = <<received["completion"][1].data[1]>>
        /\ ResolutionFailed =>
               /\ llmRequests = <<>>
               /\ received["completion"] = <<>>
               /\ ampQueries = <<>>
               /\ ampPc = "idle"
        /\ GenerationFailed =>
               /\ ampQueries = <<>>
               /\ ampPc = "idle"
               /\ Responded
               /\ Answer.status = 500
        /\ (Responded /\ Answer.status = 200) =>
               /\ Len(received["lookup"]) = 1
               /\ ~ResolutionFailed
               /\ Len(received["completion"]) = 1
               /\ ~GenerationFailed
               /\ Len(ampQueries) = 1
               /\ ampPc = "returned"
               /\ Answer = ProcessedResponse(ampResults)

\* A request answered with the rows of the analytics engine.
C35_Witness ==
    /\ endpoint = "processed-data"
    /\ Len(resolveRequests) = 1
    /\ Len(llmRequests) = 1
    /\ Len(ampQueries) = 1
    /\ ampPc = "returned"
    /\ Len(ampResults) = 2
    /\ Responded
    /\ Answer = ProcessedResponse(ampResults)

(***************************************************************************)
(* Bodies that lack the collection asked for.                              *)
(***************************************************************************)
\* The records of the bodies received by stream s before its k-th.
RecordsBefore(s, k) == Concat([j \in 1..(k - 1) |-> received[s][j].data])

\* C36: a body without errors that lacks the collection asked for is an
\* empty page to the fetcher: it is the last body of the run, no request
\* follows it, the fetcher has returned and not thrown, and what it returned
\* is what the pages before had brought, no more and no less.
C36_LackingIsEmptyPage ==
    \A s \in Streams :
        \A k \in 1..Len(received[s]) :
            received[s][k].kind \in LackingShapes =>
                /\ k = Len(received[s])
                /\ Len(requests[s]) = k
                /\ pc[s] = "done"
                /\ Last(pages[s]) = <<>>
                /\ acc[s] = RecordsBefore(s, k)

\* A paginator that held a full page when the body without the collection
\* came, and returned that page alone, the upstream holding more.
C36_Witness ==
    \E s \in Paginated :
        /\ Len(received[s]) = 2
        /\ received[s][2].kind = "no-key"
        /\ pc[s] = "done"
        /\ Len(acc[s]) = PageSize
        /\ acc[s] = pages[s][1]
        /\ Len(Window(s)) > PageSize

(***************************************************************************)
(* The responses of the two swap routes.                                   *)
(***************************************************************************)
SwapRoutes == {"recent-swaps", "latest-swaps"}

\* C37: the response of a swap route that succeeded tells as swap_count
\* the number of swaps the swap paginator returned for the request, lists
\* as many swaps, and has a summary exactly when that number is above 0,
\* made over all of them (and, for the latest swaps, a latest price exactly
\* then, that of the last swap returned).
C37_CountAndSummary ==
    (endpoint \in SwapRoutes /\ Responded /\ Answer.status = 200) =>
        /\ pc["swaps"] = "done"
        /\ Answer.swap_count = Len(acc["swaps"])
        /\ Len(Answer.swaps) = Answer.swap_count
        /\ \A i \in 1..Len(acc["swaps"]) : Answer.swaps[i].id = acc["swaps"][i].id
        /\ Answer.summary.present <=> Answer.swap_count > 0
        /\ Answer.summary.present => Answer.summary.over = Answer.swap_count
        /\ endpoint = "latest-swaps" =>
               /\ Answer.latest_price # <<>> <=> Answer.swap_count > 0
               /\ Answer.swap_count > 0 =>
                      Answer.latest_price[1].id = Last(acc["swaps"]).id

\* The latest swaps of a pool with more than a page of them, with summary.
C37_Witness ==
    /\ endpoint = "latest-swaps"
    /\ Responded
    /\ Answer.status = 200
    /\ Answer.swap_count = PageSize + 1
    /\ Answer.summary.present
    /\ Len(requests["swaps"]) = 2
=============================================================================
